---- MODULE Spec2Model ----
(***************************************************************************)
(* Model of the betatester scrape execution engine                         *)
(* (python_package/src/betatester/execution.py): the AI-driven session     *)
(* loop of ScrapeAiExecutor._execute and the step executor                 *)
(* ScrapeStepAiExecutor it runs once per page view (Spec); run() of        *)
(* _ScrapeExecutorBase around _execute of either executor class, with the  *)
(* replay loop of ScrapeSpecExecutor (RunSpec); the scrape spec file of    *)
(* LocalFileClient (StoreSpec); the markup cleaning of _get_html           *)
(* (HtmlSpec); openai_stream_response_generator of model.py reading a      *)
(* response body chunk by chunk (StreamSpec); two sessions run one after   *)
(* the other against the same answers of the language model and the        *)
(* browser, the second with subscriber queues (ObsSpec); an AI session     *)
(* with both caps set whose awaited calls all return, under weak fairness  *)
(* (LiveSpec); and, of the web service, TaskManager (TaskSpec) and the run *)
(* and stop routes with the status of a run (ServiceSpec).                 *)
(*                                                                         *)
(* Conventions.  An Optional[T] is a sequence of length at most one:       *)
(* None is <<>> and a present value v is <<v>>.  A str that the code       *)
(* searches for substrings (an instruction) is a sequence of characters.   *)
(* The text of an exception is a sequence of phrases.                      *)
(***************************************************************************)
EXTENDS Integers, Sequences, FiniteSets, TLC

(* ----------------------------- bounds ---------------------------------- *)

\* answers (streamed fragments and chosen actions) the language model gives
\* in one session before its calls only fail
MaxModelOutputs == 4

\* events in the ScrapeSpec handed to a replay
MaxSpecEvents == 3

\* child nodes of the body element of a page
MaxBodyChildren == 2

\* the content payloads of a streamed response, before its end marker
MaxPayloads == 2

\* the answers the language model and the browser give to one session
MaxAnswers == 6

\* the tasks the task manager is asked to create
MaxTasks == 3

(* --------------------------- Optional[T] ------------------------------- *)

None == <<>>

Some(v) == <<v>>

IsNone(o) == o = <<>>

Get(o) == o[1]

Min(a, b) == IF a <= b THEN a ELSE b

(* ------------------------------ strings -------------------------------- *)

\* Python's t in s for strings: t occurs in s as a contiguous substring
Contains(s, t) ==
    \E i \in 0..(Len(s) - Len(t)) :
        \A j \in 1..Len(t) : s[i + j] = t[j]

DONE == <<"D", "O", "N", "E">>

WAIT == <<"W", "A", "I", "T">>

\* the text fragments the next-step model streams
Fragments == {DONE, WAIT, <<"c", "l", "i", "c", "k">>}

SpecialInstruction == {"WAIT", "DONE"}

\* a ScrapeEvent is an Action or a SpecialInstruction
ActionEvent(a) == [type |-> "Action", action |-> a]

SpecialEvent(i) == [type |-> "SpecialInstruction", value |-> i]

(* ------------------------------ actions -------------------------------- *)

ActionElement(role, name, selector) ==
    [role |-> role, name |-> name, selector |-> selector]

Action(element, action_type, action_value) ==
    [element |-> element, action_type |-> action_type,
     action_value |-> action_value]

\* the caller's substitution tables: ScrapeVariables and the keys of ScrapeFiles
variables == [k \in {"username"} |-> "alice"]

files == [k \in {"resume"} |-> "resume.pdf"]

\* the phrases the retry loop looks for in the text of an exception
InvalidSelectorText == "is not a valid selector"

StrictModeText == "strict mode violation"

\* the answers of the action-selection model in a session
ChosenActions ==
    { Action(ActionElement(Some("button"), None, None), "click", None),
      Action(ActionElement(None, None, None), "click", None),
      Action(ActionElement(None, None, Some("#file")), "upload_file",
             Some(InvalidSelectorText)) }

Exception(kind, text) == [kind |-> kind, text |-> text]

\* what the browser does with a locator call: it returns (None) or raises
BrowserResults ==
    { None,
      Some(Exception("TimeoutError", <<"Timeout 10000ms exceeded">>)),
      Some(Exception("Error", <<"Unexpected token", InvalidSelectorText>>)),
      Some(Exception("Error", <<"Error:", StrictModeText, "resolved to 2 elements">>)),
      Some(Exception("Error", <<"Target closed">>)) }

\* the browser call an action makes, if _execute_action gets that far
BrowserCall(method, value) == [method |-> method, value |-> value]

\* _execute_action: result.raised is the exception raised (or None) and
\* result.call the browser call made (or None); r is the browser's answer
ExecResult(raised, call) == [raised |-> raised, call |-> call]

Browser(method, value, r) == ExecResult(r, Some(BrowserCall(method, value)))

Raise(kind, text) == ExecResult(Some(Exception(kind, text)), None)

\* (variant) the value is used as it stands
Substitute_Literal(vars, value) == value

\* variables.get(value, value)
Substitute(vars, value) ==
    IF value \in DOMAIN vars THEN vars[value] ELSE value

_execute_action(action, vars, fls, r) ==
    IF IsNone(action.element.selector) /\ IsNone(action.element.role)
    THEN Raise("ActionNotFoundException",
               <<"Action requires either an id or a role">>)
    ELSE CASE action.action_type = "click" -> Browser("click", None, r)
           [] action.action_type = "fill" ->
                IF IsNone(action.action_value)
                THEN Raise("ActionNotFoundException",
                           <<"Action type 'fill' requires an action_value">>)
                ELSE Browser("fill",
                             Some(Substitute(vars, Get(action.action_value))),
                             r)
           [] action.action_type = "select" ->
                Browser("select_option", action.action_value, r)
           [] action.action_type = "check" -> Browser("check", None, r)
           [] action.action_type = "upload_file" ->
                IF IsNone(action.action_value)
                THEN Raise("ActionNotFoundException",
                           <<"Action type 'upload' requires an action_value and files">>)
                ELSE IF Get(action.action_value) \notin DOMAIN fls
                THEN Raise("ActionNotFoundException",
                           <<"Action value", Get(action.action_value),
                             "not found in files">>)
                ELSE Browser("set_input_files",
                             Some(fls[Get(action.action_value)]), r)
           [] action.action_type = "none" -> ExecResult(None, None)
           [] OTHER -> Raise("ActionNotFoundException",
                             <<"Action type", action.action_type, "not found">>)

\* phrase in str(e)
TextContains(e, phrase) == \E i \in 1..Len(e.text) : e.text[i] = phrase

(* ------------------------------ prompts -------------------------------- *)

ModelChat(role, content) == [role |-> role, content |-> content]

\* (variant) only the latest step is carried forward
create_next_step_system_prompt_LastOnly(steps) ==
    ModelChat("system",
              [prompt |-> "next_step",
               previous_steps |->
                   IF steps = <<>> THEN <<>> ELSE <<steps[Len(steps)]>>])

create_next_step_system_prompt(steps) ==
    ModelChat("system", [prompt |-> "next_step", previous_steps |-> steps])

create_choose_action_system_prompt(vars, fls) ==
    ModelChat("system", [prompt |-> "choose_action",
                         variable_keys |-> DOMAIN vars,
                         file_keys |-> DOMAIN fls])

create_choose_action_user_message(instruction, html) ==
    ModelChat("user", [instruction |-> instruction, html |-> html])

\* the corrective messages of the retry loop
TimeoutMessage ==
    "Looks like that element could not be found in the page, are you sure you selected the right one?"

InvalidSelectorMessage ==
    "The selector you provided is invalid, try to use role and name instead"

StrictModeMessage ==
    "The locator resolved to more than one element, try to use role and name instead"

\* (variant) every exception of the attempt is answered and retried
Corrective_RetryAll(e) ==
    IF e.kind = "TimeoutError" THEN Some(TimeoutMessage)
    ELSE IF TextContains(e, InvalidSelectorText) THEN Some(InvalidSelectorMessage)
    ELSE Some(StrictModeMessage)

\* the except clauses of the retry loop, in order: the corrective message
\* appended for exception e, or None when e is re-raised
Corrective(e) ==
    IF e.kind = "TimeoutError" THEN Some(TimeoutMessage)
    ELSE IF TextContains(e, InvalidSelectorText) THEN Some(InvalidSelectorMessage)
    ELSE IF TextContains(e, StrictModeText) THEN Some(StrictModeMessage)
    ELSE None

(* --------------------------- configuration ----------------------------- *)

MaxPageViewsValues == {None, Some(1), Some(2)}

MaxTotalActionsValues == {None, Some(0), Some(1), Some(2), Some(5)}

MaxActionAttemptsPerStepValues == {None, Some(2), Some(5)}

Queues == {"q1", "q2"}

(* ------------------------------- state --------------------------------- *)

VARIABLES
    \* ScrapeAiExecutor
    max_page_views, max_total_actions, max_action_attempts_per_step,
    subscriptions, scrape_page_view_count, scrape_action_count,
    previous_steps, scrape_events,
    \* the ScrapeStepAiExecutor of the current page view
    step_max_action_attempts, actions_count, next_step_chat,
    choose_action_chat, next_instruction, action, returned,
    \* the item the next-step stream yielded last
    output,
    \* control: position in _execute / run, how _execute ended (the kind of
    \* the exception that left it) and the exception raised last
    pc, outcome, exception,
    \* the calls made to the browser and to the language model, in order,
    \* and the number of answers the language model has given
    calls, model_outputs,
    \* _ScrapeExecutorBase: which executor class runs, its constructor
    \* arguments and, for a replay, the ScrapeSpec it was constructed from
    executor, file_client, save_playwright_trace, url, viewport, scrape_spec,
    \* run(): position in run, the playwright objects, the temporary trace
    \* directory, what reached the file port, the model client, and the
    \* exception leaving run
    run_pc, browser, context, tracing, trace_tempdir, saved_traces,
    saved_scrape_specs, http_client, run_exception,
    \* ScrapeSpecExecutor._execute: index of the next event of the for loop
    event_index,
    \* LocalFileClient: the content of the scrape spec file (None before it
    \* is written) and the spec load_scrape_spec returned
    disk, loaded,
    \* _get_html: the document page.content() returned and the markup
    \* handed to the action-selection prompt
    page_content, html,
    \* openai_stream_response_generator: the response body the server
    \* sends, how much of it the transport has delivered, the text
    \* accumulated, the items yielded, where the generator stands, and
    \* whether the transport has cut a chunk inside a line
    response_body, delivered, content, yielded, generator, cut_inside_line,
    \* two sessions compared: which of the two runs, the answers of the
    \* language model and of the browser to each request, and what the
    \* first session left behind
    phase, stream_script, answer_script, result_script, first,
    \* the web service: TaskManager.tasks, the asyncio tasks created so far
    \* and scraper_info_cache with the status of each RunMessage
    tasks, handles, status

config == <<max_page_views, max_total_actions, max_action_attempts_per_step>>

session == <<scrape_page_view_count, scrape_action_count, previous_steps,
             scrape_events>>

step == <<step_max_action_attempts, actions_count, next_step_chat,
          choose_action_chat, next_instruction, action, returned, output>>

env == <<calls, model_outputs>>

run_config == <<executor, file_client, save_playwright_trace, url, viewport,
                scrape_spec>>

run_state == <<run_pc, browser, context, tracing, trace_tempdir, saved_traces,
               saved_scrape_specs, http_client, run_exception>>

storage == <<disk, loaded>>

markup == <<page_content, html>>

stream == <<response_body, delivered, content, yielded, generator, cut_inside_line>>

twin == <<phase, stream_script, answer_script, result_script, first>>

service == <<tasks, handles, status>>

\* everything outside the AI session loop
outer == <<run_config, run_state, event_index, storage, markup, stream, twin,
           service>>

vars == <<config, subscriptions, session, step, pc, outcome, exception, env,
          outer>>

\* (variant) only one of the subscribed queues is given the message
publish_FirstOnly(message) ==
    [q \in DOMAIN subscriptions |->
        IF q = CHOOSE first_queue \in DOMAIN subscriptions : TRUE
        THEN Append(subscriptions[q], message)
        ELSE subscriptions[q]]

\* _AiExecutorBase.publish: put the message on every subscribed queue
publish(message) ==
    [q \in DOMAIN subscriptions |-> Append(subscriptions[q], message)]

\* a call to the browser or to the language model made in the current step
Call(name, arg) == [step |-> scrape_page_view_count, call |-> name, arg |-> arg]

\* (variant) only the attempt that succeeded is counted
StepResult_CountsSuccessOnly(instruction, act, count) ==
    [next_instruction |-> instruction, action |-> act,
     action_count |-> IF IsNone(act) THEN 0 ELSE 1]

\* (variant) a successful attempt that reached the limit is given up as well
StepResult_LimitAfterSuccess(instruction, act, count) ==
    [next_instruction |-> instruction,
     action |-> IF /\ ~IsNone(step_max_action_attempts)
                   /\ count >= Get(step_max_action_attempts)
                THEN None ELSE act,
     action_count |-> count]

\* the tuple ScrapeStepAiExecutor.run returns
StepResult(instruction, act, count) ==
    [next_instruction |-> instruction, action |-> act, action_count |-> count]

\* exception e leaves _execute
Raises(e) == pc' = "terminated" /\ outcome' = e.kind /\ exception' = Some(e)

\* (variant) the per-step cap alone, the remaining total budget ignored
max_action_attempts_PerStepOnly == max_action_attempts_per_step

\* ScrapeAiExecutor.max_action_attempts
max_action_attempts ==
    IF ~IsNone(max_action_attempts_per_step)
    THEN IF ~IsNone(max_total_actions)
         THEN Some(Min(Get(max_action_attempts_per_step),
                       Get(max_total_actions) - scrape_action_count))
         ELSE max_action_attempts_per_step
    ELSE None

\* ScrapeSpec
ScrapeSpec(u, events, vs, fls, height, width) ==
    [url |-> u, scrape_events |-> events, variables |-> vs, files |-> fls,
     viewport_height |-> height, viewport_width |-> width]

\* ViewportSize
ViewportSize(width, height) == [width |-> width, height |-> height]

\* the url and viewport an AI session is constructed with
AiUrl == "https://app.example/signup"

AiViewport == ViewportSize(1280, 720)

\* the events a recorded ScrapeSpec is made of
RecordedEvents ==
    { ActionEvent(Action(ActionElement(Some("button"), Some("Submit"), None),
                         "click", None)),
      ActionEvent(Action(ActionElement(None, None, Some("#user")),
                         "fill", Some("username"))),
      ActionEvent(Action(ActionElement(None, None, Some("#user")),
                         "fill", Some("bob"))),
      ActionEvent(Action(ActionElement(None, None, Some("#plan")),
                         "select", Some("username"))),
      ActionEvent(Action(ActionElement(None, None, Some("#plan")),
                         "select", Some("premium"))),
      ActionEvent(Action(ActionElement(None, None, Some("#cv")),
                         "upload_file", Some("resume"))),
      SpecialEvent("DONE"),
      SpecialEvent("WAIT") }

RECURSIVE SeqsUpTo(_, _)
\* the sequences over S of length at most n
SeqsUpTo(S, n) ==
    IF n = 0 THEN {<<>>}
    ELSE LET shorter == SeqsUpTo(S, n - 1) IN
         shorter \cup {Append(q, x) : q \in shorter, x \in S}

\* the specs a replay is constructed from: their tables, url and viewport
\* differ from those of an AI session
ScrapeSpecs ==
    { ScrapeSpec("https://app.example/recorded", events,
                 [k \in {"username"} |-> "carol"],
                 [k \in {"resume"} |-> "cv.pdf"], 600, 800) :
        events \in SeqsUpTo(RecordedEvents, MaxSpecEvents) }

\* the attributes a fresh executor starts with, whatever its class
FreshExecutor ==
    /\ subscriptions = [q \in Queues |-> <<>>]
    /\ scrape_page_view_count = 0
    /\ scrape_action_count = 0
    /\ previous_steps = <<>>
    /\ step_max_action_attempts = None
    /\ actions_count = 0
    /\ next_step_chat = <<>>
    /\ choose_action_chat = <<>>
    /\ next_instruction = None
    /\ action = None
    /\ returned = None
    /\ output = None
    /\ outcome = "running"
    /\ exception = None
    /\ calls = <<>>
    /\ model_outputs = 0
    /\ saved_traces = <<>>
    /\ saved_scrape_specs = <<>>
    /\ run_exception = None
    /\ trace_tempdir = "none"
    /\ event_index = 0

\* no spec file has been written or read
NoStorage == disk = None /\ loaded = None

\* no page has been read
NoMarkup == page_content = None /\ html = None

\* no response body is being read
NoStream ==
    /\ response_body = <<>>
    /\ delivered = 0
    /\ content = <<>>
    /\ yielded = <<>>
    /\ generator = "none"
    /\ cut_inside_line = FALSE

\* a single session, compared with no other
NoTwin ==
    /\ phase = 0
    /\ stream_script = <<>>
    /\ answer_script = <<>>
    /\ result_script = <<>>
    /\ first = None

\* the web service has started no run
NoService ==
    /\ tasks = <<>>
    /\ handles = <<>>
    /\ status = <<>>

\* an AI session at the point where run() calls _execute
Init ==
    /\ max_page_views \in MaxPageViewsValues
    /\ max_total_actions \in MaxTotalActionsValues
    /\ max_action_attempts_per_step \in MaxActionAttemptsPerStepValues
    /\ FreshExecutor
    /\ scrape_events = <<>>
    /\ pc = "goto"
    /\ executor = "ai"
    /\ file_client = FALSE
    /\ save_playwright_trace = FALSE
    /\ url = AiUrl
    /\ viewport = AiViewport
    /\ scrape_spec = None
    /\ run_pc = "execute"
    /\ browser = "open"
    /\ context = "open"
    /\ tracing = FALSE
    /\ http_client = "open"
    /\ NoStorage
    /\ NoMarkup
    /\ NoStream
    /\ NoTwin
    /\ NoService

(* ---------------------- ScrapeAiExecutor._execute ---------------------- *)

\* page.goto(self.url)
Goto ==
    /\ pc = "goto"
    /\ calls' = Append(calls, Call("goto", Some(url)))
    /\ pc' = "loop"
    /\ UNCHANGED <<config, outer, subscriptions, session, step, outcome, exception,
                   model_outputs>>

\* (variant) the page view is counted twice
StartStep_CountsTwice ==
    /\ pc = "loop"
    /\ scrape_page_view_count' = scrape_page_view_count + 2
    /\ subscriptions' =
           publish([scrape_page_view_count |-> scrape_page_view_count + 2,
                    scrape_action_count |-> scrape_action_count])
    /\ step_max_action_attempts' = max_action_attempts
    /\ actions_count' = 0
    /\ next_step_chat' = <<create_next_step_system_prompt(previous_steps)>>
    /\ choose_action_chat' =
           <<create_choose_action_system_prompt(variables, files)>>
    /\ next_instruction' = None
    /\ action' = None
    /\ returned' = None
    /\ output' = None
    /\ pc' = "screenshot"
    /\ UNCHANGED <<config, outer, scrape_action_count, previous_steps,
                   scrape_events, outcome, exception, env>>

\* (variant) the transcript of the previous step is carried into the next
InitialChooseActionChat_Carried ==
    IF choose_action_chat = <<>>
    THEN <<create_choose_action_system_prompt(variables, files)>>
    ELSE choose_action_chat

\* self.choose_action_chat of a new step executor
InitialChooseActionChat ==
    <<create_choose_action_system_prompt(variables, files)>>

\* the head of the loop: count the page view, publish the counters and
\* construct the step executor
StartStep ==
    /\ pc = "loop"
    /\ scrape_page_view_count' = scrape_page_view_count + 1
    /\ subscriptions' =
           publish([scrape_page_view_count |-> scrape_page_view_count + 1,
                    scrape_action_count |-> scrape_action_count])
    /\ step_max_action_attempts' = max_action_attempts
    /\ actions_count' = 0
    /\ next_step_chat' = <<create_next_step_system_prompt(previous_steps)>>
    /\ choose_action_chat' = InitialChooseActionChat
    /\ next_instruction' = None
    /\ action' = None
    /\ returned' = None
    /\ output' = None
    /\ pc' = "screenshot"
    /\ UNCHANGED <<config, outer, scrape_action_count, previous_steps, scrape_events,
                   outcome, exception, env>>

(* ---------------------- ScrapeStepAiExecutor.run ----------------------- *)

\* _take_screenshot, then _get_next_step up to the first item of the stream;
\* self._get_html() only creates the coroutine, it does not run yet
TakeScreenshot ==
    /\ pc = "screenshot"
    /\ calls' = calls \o <<Call("screenshot", None), Call("next_step", None)>>
    /\ next_step_chat' =
           Append(next_step_chat,
                  ModelChat("user", [image |-> scrape_page_view_count]))
    /\ next_instruction' = Some(<<>>)
    /\ pc' = "next_step"
    /\ UNCHANGED <<config, outer, subscriptions, session, step_max_action_attempts,
                   actions_count, choose_action_chat, action, returned, output,
                   outcome, exception, model_outputs>>

\* the stream yields {"content": ...}: the text so far extended by fragment f
StreamContent(f) ==
    /\ pc = "next_step"
    /\ model_outputs < MaxModelOutputs
    /\ model_outputs' = model_outputs + 1
    /\ next_instruction' = Some(Get(next_instruction) \o f)
    /\ output' = Some([content |-> Get(next_instruction) \o f])
    /\ subscriptions' = publish([step_id |-> scrape_page_view_count,
                                 next_step |-> Get(next_instruction) \o f])
    /\ UNCHANGED <<config, outer, session, step_max_action_attempts, actions_count,
                   next_step_chat, choose_action_chat, action, returned, pc,
                   outcome, exception, calls>>

\* (variant) the error item is taken for the end of the stream
StreamError_Swallowed ==
    /\ pc = "next_step"
    /\ output' = Some([error |-> None])
    /\ pc' = "html"
    /\ UNCHANGED <<config, outer, subscriptions, session, step_max_action_attempts,
                   actions_count, next_step_chat, choose_action_chat,
                   next_instruction, action, returned, outcome, exception, env>>

\* the stream yields {"error": ...}: non-200 response, transport exception
StreamError ==
    /\ pc = "next_step"
    /\ output' = Some([error |-> None])
    /\ Raises(Exception("NextStepNotFoundException", <<"None">>))
    /\ UNCHANGED <<config, outer, subscriptions, session, step_max_action_attempts,
                   actions_count, next_step_chat, choose_action_chat,
                   next_instruction, action, returned, env>>

\* the stream ends: the instruction joins the next-step chat
StreamEnd ==
    /\ pc = "next_step"
    /\ next_step_chat' =
           Append(next_step_chat,
                  ModelChat("assistant", [text |-> Get(next_instruction)]))
    /\ subscriptions' =
           publish([step_id |-> scrape_page_view_count,
                    next_step_chat |->
                        Append(next_step_chat,
                               ModelChat("assistant",
                                         [text |-> Get(next_instruction)]))])
    /\ pc' = "html"
    /\ UNCHANGED <<config, outer, session, step_max_action_attempts, actions_count,
                   choose_action_chat, next_instruction, action, returned,
                   output, outcome, exception, env>>

\* (variant) only DONE ends the step early
IsDoneOrWait_DoneOnly(instruction) == Contains(instruction, DONE)

\* "DONE" in next_instruction or "WAIT" in next_instruction
IsDoneOrWait(instruction) ==
    Contains(instruction, DONE) \/ Contains(instruction, WAIT)

\* html = await html_coro, then the DONE/WAIT test; otherwise the
\* instruction and the markup open the action-selection chat
GetHtml ==
    /\ pc = "html"
    /\ calls' = Append(calls, Call("content", None))
    /\ IF IsDoneOrWait(Get(next_instruction))
       THEN /\ returned' = Some(StepResult(next_instruction, None, 0))
            /\ pc' = "returned"
            /\ UNCHANGED choose_action_chat
       ELSE /\ choose_action_chat' =
                   Append(choose_action_chat,
                          create_choose_action_user_message(
                              Get(next_instruction), scrape_page_view_count))
            /\ pc' = "choose_action"
            /\ UNCHANGED returned
    /\ UNCHANGED <<config, outer, subscriptions, session, step_max_action_attempts,
                   actions_count, next_step_chat, next_instruction, action,
                   output, outcome, exception, model_outputs>>

\* _choose_action answers a, the attempt is counted and published; the
\* exception of the previous attempt went out of scope with its except clause
ChooseAction(a) ==
    /\ pc = "choose_action"
    /\ model_outputs < MaxModelOutputs
    /\ model_outputs' = model_outputs + 1
    /\ calls' = Append(calls, Call("choose_action", None))
    /\ choose_action_chat' =
           Append(choose_action_chat, ModelChat("assistant", [action |-> a]))
    /\ action' = Some(a)
    /\ actions_count' = actions_count + 1
    /\ subscriptions' =
           publish([step_id |-> scrape_page_view_count,
                    action |-> a,
                    step_action_count |-> actions_count + 1,
                    choose_action_chat |->
                        Append(choose_action_chat,
                               ModelChat("assistant", [action |-> a]))])
    /\ exception' = None
    /\ pc' = "execute_action"
    /\ UNCHANGED <<config, outer, session, step_max_action_attempts, next_step_chat,
                   next_instruction, returned, output, outcome>>

\* send_openai_request raises (raise_for_status, transport error)
ChooseActionError ==
    /\ pc = "choose_action"
    /\ calls' = Append(calls, Call("choose_action", None))
    /\ Raises(Exception("HTTPStatusError", <<"Client error">>))
    /\ UNCHANGED <<config, outer, subscriptions, session, step, model_outputs>>

\* (variant) the limit test lets one attempt too many through
AttemptsExhausted_Strict ==
    /\ ~IsNone(step_max_action_attempts)
    /\ actions_count > Get(step_max_action_attempts)

\* (variant) the step also gives up when a subscriber has fallen behind
AttemptsExhausted_Backpressure ==
    \/ /\ ~IsNone(step_max_action_attempts)
       /\ actions_count >= Get(step_max_action_attempts)
    \/ \E q \in DOMAIN subscriptions : Len(subscriptions[q]) >= 3

\* the limit test that follows a recoverable failure
AttemptsExhausted ==
    /\ ~IsNone(step_max_action_attempts)
    /\ actions_count >= Get(step_max_action_attempts)

\* _execute_action on the chosen action, the browser answering r, and what
\* the retry loop does with the outcome
ExecuteAction(r) ==
    /\ pc = "execute_action"
    /\ LET res == _execute_action(Get(action), variables, files, r)
           c == IF IsNone(res.raised) THEN None ELSE Corrective(Get(res.raised))
       IN
       /\ calls' = IF IsNone(res.call) THEN calls
                   ELSE Append(calls, Call(Get(res.call).method,
                                           Get(res.call).value))
       /\ IF IsNone(res.raised)
          THEN /\ returned' = Some(StepResult(next_instruction, action,
                                              actions_count))
               /\ pc' = "returned"
               /\ UNCHANGED <<choose_action_chat, outcome, exception>>
          ELSE IF IsNone(c)
          THEN /\ Raises(Get(res.raised))
               /\ UNCHANGED <<choose_action_chat, returned>>
          ELSE /\ choose_action_chat' =
                      Append(choose_action_chat,
                             ModelChat("user", [text |-> Get(c)]))
               /\ IF AttemptsExhausted
                  THEN /\ returned' = Some(StepResult(next_instruction, None,
                                                      actions_count))
                       /\ pc' = "returned"
                  ELSE /\ pc' = "choose_action"
                       /\ UNCHANGED returned
               /\ exception' = res.raised
               /\ UNCHANGED outcome
    /\ UNCHANGED <<config, outer, subscriptions, session, step_max_action_attempts,
                   actions_count, next_step_chat, next_instruction, action,
                   output, model_outputs>>

(* ------------------ ScrapeAiExecutor._execute, continued --------------- *)

\* (variant) WAIT is looked for before DONE
InstructionFmt_WaitFirst(instruction) ==
    IF IsNone(instruction) THEN None
    ELSE IF Contains(Get(instruction), WAIT) THEN Some("WAIT")
    ELSE IF Contains(Get(instruction), DONE) THEN Some("DONE")
    ELSE None

\* (variant) the tokens are compared for equality, not looked for
InstructionFmt_ExactMatch(instruction) ==
    IF IsNone(instruction) THEN None
    ELSE IF Get(instruction) = DONE THEN Some("DONE")
    ELSE IF Get(instruction) = WAIT THEN Some("WAIT")
    ELSE None

\* next_instruction_fmt
InstructionFmt(instruction) ==
    IF IsNone(instruction) THEN None
    ELSE IF Contains(Get(instruction), DONE) THEN Some("DONE")
    ELSE IF Contains(Get(instruction), WAIT) THEN Some("WAIT")
    ELSE None

\* (variant) only the action of a step is recorded, WAIT and DONE are not
StepEvents_ActionOnly(result) ==
    IF IsNone(result.action) THEN <<>>
    ELSE <<ActionEvent(Get(result.action))>>

\* what the step adds to scrape_events
StepEvents(result) ==
    (IF IsNone(result.action) THEN <<>>
     ELSE <<ActionEvent(Get(result.action))>>)
    \o (IF IsNone(InstructionFmt(result.next_instruction)) THEN <<>>
        ELSE <<SpecialEvent(Get(InstructionFmt(result.next_instruction)))>>)

\* (variant) the total-action budget fails one action late
MaxTotalActionsReached_Strict(count) ==
    ~IsNone(max_total_actions) /\ count > Get(max_total_actions)

MaxTotalActionsReached(count) ==
    ~IsNone(max_total_actions) /\ count >= Get(max_total_actions)

\* (variant) the page-view budget fails one page view late
MaxPageViewsReached_Strict(count) ==
    ~IsNone(max_page_views) /\ count > Get(max_page_views)

MaxPageViewsReached(count) ==
    ~IsNone(max_page_views) /\ count >= Get(max_page_views)

\* (variant) the budgets are tested before the session looks for DONE
ProcessStep_BudgetsFirst ==
    /\ pc = "returned"
    /\ LET result == Get(returned) IN
       /\ previous_steps' =
              IF IsNone(result.next_instruction) THEN previous_steps
              ELSE Append(previous_steps, Get(result.next_instruction))
       /\ scrape_action_count' = scrape_action_count + result.action_count
       /\ scrape_events' = scrape_events \o StepEvents(result)
       /\ IF MaxTotalActionsReached(scrape_action_count
                                    + result.action_count)
          THEN Raises(Exception("MaxTotalActionsReachedException",
                                <<"Max total actions reached">>))
          ELSE IF MaxPageViewsReached(scrape_page_view_count)
          THEN Raises(Exception("MaxPageViewsReachedException",
                                <<"Max page views reached">>))
          ELSE IF InstructionFmt(result.next_instruction) = Some("DONE")
          THEN pc' = "terminated" /\ outcome' = "returned"
               /\ UNCHANGED exception
          ELSE pc' = "loop" /\ UNCHANGED <<outcome, exception>>
    /\ UNCHANGED <<config, outer, subscriptions, scrape_page_view_count, step, env>>

\* (variant) the page-view budget is tested before the total-action budget
ProcessStep_PageViewsFirst ==
    /\ pc = "returned"
    /\ LET result == Get(returned) IN
       /\ previous_steps' =
              IF IsNone(result.next_instruction) THEN previous_steps
              ELSE Append(previous_steps, Get(result.next_instruction))
       /\ scrape_action_count' = scrape_action_count + result.action_count
       /\ scrape_events' = scrape_events \o StepEvents(result)
       /\ IF InstructionFmt(result.next_instruction) = Some("DONE")
          THEN pc' = "terminated" /\ outcome' = "returned"
               /\ UNCHANGED exception
          ELSE IF MaxPageViewsReached(scrape_page_view_count)
          THEN Raises(Exception("MaxPageViewsReachedException",
                                <<"Max page views reached">>))
          ELSE IF MaxTotalActionsReached(scrape_action_count
                                         + result.action_count)
          THEN Raises(Exception("MaxTotalActionsReachedException",
                                <<"Max total actions reached">>))
          ELSE pc' = "loop" /\ UNCHANGED <<outcome, exception>>
    /\ UNCHANGED <<config, outer, subscriptions, scrape_page_view_count, step, env>>

\* the step has returned: record the instruction, the count and the events,
\* then end on DONE, raise on an exhausted budget, or loop
ProcessStep ==
    /\ pc = "returned"
    /\ LET result == Get(returned) IN
       /\ previous_steps' =
              IF IsNone(result.next_instruction) THEN previous_steps
              ELSE Append(previous_steps, Get(result.next_instruction))
       /\ scrape_action_count' = scrape_action_count + result.action_count
       /\ scrape_events' = scrape_events \o StepEvents(result)
       /\ IF InstructionFmt(result.next_instruction) = Some("DONE")
          THEN pc' = "terminated" /\ outcome' = "returned"
               /\ UNCHANGED exception
          ELSE IF MaxTotalActionsReached(scrape_action_count
                                         + result.action_count)
          THEN Raises(Exception("MaxTotalActionsReachedException",
                                <<"Max total actions reached">>))
          ELSE IF MaxPageViewsReached(scrape_page_view_count)
          THEN Raises(Exception("MaxPageViewsReachedException",
                                <<"Max page views reached">>))
          ELSE pc' = "loop" /\ UNCHANGED <<outcome, exception>>
    /\ UNCHANGED <<config, outer, subscriptions, scrape_page_view_count, step, env>>

Next ==
    \/ Goto
    \/ StartStep
    \/ TakeScreenshot
    \/ \E f \in Fragments : StreamContent(f)
    \/ StreamError
    \/ StreamEnd
    \/ GetHtml
    \/ \E a \in ChosenActions : ChooseAction(a)
    \/ ChooseActionError
    \/ \E r \in BrowserResults : ExecuteAction(r)
    \/ ProcessStep

Spec == Init /\ [][Next]_vars

(* ===================== _ScrapeExecutorBase.run ========================= *)

\* the budgets of the AI sessions followed through run()
RunMaxPageViewsValues == {None, Some(1)}

RunMaxTotalActionsValues == {None, Some(1)}

RunMaxActionAttemptsPerStepValues == {Some(2)}

\* an executor of either class, constructed and not yet run; the
\* constructor refuses save_playwright_trace without a file client
RunInit ==
    /\ executor \in {"ai", "replay"}
    /\ file_client \in BOOLEAN
    /\ save_playwright_trace \in BOOLEAN
    /\ save_playwright_trace => file_client
    /\ FreshExecutor
    /\ IF executor = "ai"
       THEN /\ max_page_views \in RunMaxPageViewsValues
            /\ max_total_actions \in RunMaxTotalActionsValues
            /\ max_action_attempts_per_step
                   \in RunMaxActionAttemptsPerStepValues
            /\ scrape_spec = None
            /\ scrape_events = <<>>
            /\ url = AiUrl
            /\ viewport = AiViewport
       ELSE /\ max_page_views = None
            /\ max_total_actions = None
            /\ max_action_attempts_per_step = None
            /\ \E sp \in ScrapeSpecs :
                   /\ scrape_spec = Some(sp)
                   /\ scrape_events = sp.scrape_events
                   /\ url = sp.url
                   /\ viewport = ViewportSize(sp.viewport_width,
                                              sp.viewport_height)
    /\ pc = "not_started"
    /\ run_pc = "start"
    /\ browser = "none"
    /\ context = "none"
    /\ tracing = FALSE
    /\ http_client = "none"
    /\ NoStorage
    /\ NoMarkup
    /\ NoStream
    /\ NoTwin
    /\ NoService

\* launch the browser, create the context (and start tracing), open the page
Launch ==
    /\ run_pc = "start"
    /\ calls' = calls
                \o <<Call("launch", None), Call("new_context", Some(viewport))>>
                \o (IF save_playwright_trace
                    THEN <<Call("tracing.start", None)>> ELSE <<>>)
                \o <<Call("new_page", None)>>
    /\ browser' = "open"
    /\ context' = "open"
    /\ tracing' = save_playwright_trace
    /\ run_pc' = "start_callback"
    /\ UNCHANGED <<config, storage, markup, stream, twin, service, subscriptions, session, step, pc, outcome,
                   exception, model_outputs, run_config, trace_tempdir,
                   saved_traces, saved_scrape_specs, http_client,
                   run_exception, event_index>>

\* _run_start_callback returns (the AI executor creates its model client),
\* and run enters the try block: _execute starts
RunStartCallback ==
    /\ run_pc = "start_callback"
    /\ http_client' = IF executor = "ai" THEN "open" ELSE http_client
    /\ run_pc' = "execute"
    /\ pc' = IF executor = "ai" THEN "goto" ELSE "replay_goto"
    /\ UNCHANGED <<config, storage, markup, stream, twin, service, subscriptions, session, step, outcome, exception,
                   env, run_config, browser, context, tracing, trace_tempdir,
                   saved_traces, saved_scrape_specs, run_exception,
                   event_index>>

\* _run_start_callback raises: the call is outside the try block
RunStartCallbackError ==
    /\ run_pc = "start_callback"
    /\ executor = "ai"
    /\ run_exception' = Some(Exception("ValueError", <<"Unknown scheme for proxy URL">>))
    /\ run_pc' = "playwright_exit"
    /\ UNCHANGED <<config, storage, markup, stream, twin, service, subscriptions, session, step, pc, outcome,
                   exception, env, run_config, browser, context, tracing,
                   trace_tempdir, saved_traces, saved_scrape_specs,
                   http_client, event_index>>

\* the positions of _execute at which a browser or model call is awaited
AwaitPcs == {"goto", "screenshot", "next_step", "html", "choose_action",
             "execute_action", "replay_goto", "replay"}

\* the task running run() is cancelled while _execute awaits a call
Cancel ==
    /\ run_pc = "execute"
    /\ pc \in AwaitPcs
    /\ Raises(Exception("CancelledError", <<>>))
    /\ UNCHANGED <<config, subscriptions, session, step, env, outer>>

\* _execute has returned or raised: the finally block starts
InFinally == run_pc = "execute" /\ pc = "terminated"

\* the temporary directory is created and context.tracing.stop returns
TraceStop ==
    /\ InFinally
    /\ save_playwright_trace
    /\ trace_tempdir' = "exists"
    /\ calls' = Append(calls, Call("tracing.stop", None))
    /\ tracing' = FALSE
    /\ run_pc' = "save_trace"
    /\ UNCHANGED <<config, storage, markup, stream, twin, service, subscriptions, session, step, pc, outcome,
                   exception, model_outputs, run_config, browser, context,
                   saved_traces, saved_scrape_specs, http_client,
                   run_exception, event_index>>

\* the temporary directory is created and context.tracing.stop raises
TraceStopError ==
    /\ InFinally
    /\ save_playwright_trace
    /\ trace_tempdir' = "exists"
    /\ calls' = Append(calls, Call("tracing.stop", None))
    /\ run_exception' = Some(Exception("Error", <<"Target closed">>))
    /\ run_pc' = "playwright_exit"
    /\ UNCHANGED <<config, storage, markup, stream, twin, service, subscriptions, session, step, pc, outcome,
                   exception, model_outputs, run_config, browser, context,
                   tracing, saved_traces, saved_scrape_specs, http_client,
                   event_index>>

\* file_client.save_trace returns, then trace_tempdir.cleanup()
SaveTrace ==
    /\ run_pc = "save_trace"
    /\ saved_traces' = IF file_client THEN Append(saved_traces, "trace.zip")
                       ELSE saved_traces
    /\ trace_tempdir' = "cleaned"
    /\ run_pc' = "context_close"
    /\ UNCHANGED <<config, storage, markup, stream, twin, service, subscriptions, session, step, pc, outcome,
                   exception, env, run_config, browser, context, tracing,
                   saved_scrape_specs, http_client, run_exception,
                   event_index>>

\* file_client.save_trace raises
SaveTraceError ==
    /\ run_pc = "save_trace"
    /\ file_client
    /\ run_exception' = Some(Exception("OSError", <<"No space left on device">>))
    /\ run_pc' = "playwright_exit"
    /\ UNCHANGED <<config, storage, markup, stream, twin, service, subscriptions, session, step, pc, outcome,
                   exception, env, run_config, browser, context, tracing,
                   trace_tempdir, saved_traces, saved_scrape_specs,
                   http_client, event_index>>

\* context.close()
CloseContext ==
    /\ \/ InFinally /\ ~save_playwright_trace
       \/ run_pc = "context_close"
    /\ calls' = Append(calls, Call("context.close", None))
    /\ context' = "closed"
    /\ run_pc' = "browser_close"
    /\ UNCHANGED <<config, storage, markup, stream, twin, service, subscriptions, session, step, pc, outcome,
                   exception, model_outputs, run_config, browser, tracing,
                   trace_tempdir, saved_traces, saved_scrape_specs,
                   http_client, run_exception, event_index>>

\* browser.close()
CloseBrowser ==
    /\ run_pc = "browser_close"
    /\ calls' = Append(calls, Call("browser.close", None))
    /\ browser' = "closed"
    /\ run_pc' = "end_callback"
    /\ UNCHANGED <<config, storage, markup, stream, twin, service, subscriptions, session, step, pc, outcome,
                   exception, model_outputs, run_config, context, tracing,
                   trace_tempdir, saved_traces, saved_scrape_specs,
                   http_client, run_exception, event_index>>

\* (variant) the spec is saved without its events
EndCallbackSpec_NoEvents ==
    ScrapeSpec(url, <<>>, variables, files, viewport.height, viewport.width)

\* the ScrapeSpec ScrapeAiExecutor._run_end_callback builds
EndCallbackSpec ==
    ScrapeSpec(url, scrape_events, variables, files, viewport.height,
               viewport.width)

\* _run_end_callback: the AI executor saves the spec through the file
\* client and closes the model client it created; the replay executor
\* inherits the empty callback
RunEndCallback ==
    /\ run_pc = "end_callback"
    /\ saved_scrape_specs' =
           IF executor = "ai" /\ file_client
           THEN Append(saved_scrape_specs, EndCallbackSpec)
           ELSE saved_scrape_specs
    /\ http_client' = IF executor = "ai" /\ http_client = "open"
                      THEN "closed" ELSE http_client
    /\ run_pc' = "playwright_exit"
    /\ UNCHANGED <<config, storage, markup, stream, twin, service, subscriptions, session, step, pc, outcome,
                   exception, env, run_config, browser, context, tracing,
                   trace_tempdir, saved_traces, run_exception, event_index>>

\* the async_playwright context manager exits: the driver stops and takes
\* down a browser that is still open; run returns, or the exception of the
\* finally block, the start callback or _execute propagates
PlaywrightExit ==
    /\ run_pc = "playwright_exit"
    /\ browser' = IF browser = "open" THEN "killed" ELSE browser
    /\ context' = IF context = "open" THEN "killed" ELSE context
    /\ run_exception' =
           IF ~IsNone(run_exception) THEN run_exception
           ELSE IF outcome \notin {"running", "returned"} THEN exception
           ELSE None
    /\ run_pc' = "exited"
    /\ UNCHANGED <<config, storage, markup, stream, twin, service, subscriptions, session, step, pc, outcome,
                   exception, env, run_config, tracing, trace_tempdir,
                   saved_traces, saved_scrape_specs, http_client,
                   event_index>>

(* --------------------- ScrapeSpecExecutor._execute --------------------- *)

\* (variant) the tables of an AI session instead of the recorded ones
ReplayVariables_Callers == variables

\* self.variables and self.files of a replay: those of the spec
ReplayVariables == Get(scrape_spec).variables

ReplayFiles == Get(scrape_spec).files

\* page.goto(self.url)
ReplayGoto ==
    /\ pc = "replay_goto"
    /\ calls' = Append(calls, Call("goto", Some(url)))
    /\ event_index' = 1
    /\ pc' = "replay"
    /\ UNCHANGED <<config, storage, markup, stream, twin, service, subscriptions, session, step, outcome, exception,
                   model_outputs, run_config, run_state>>

\* the loop reaches an Action: _execute_action, the browser answering r
ReplayAction(r) ==
    /\ pc = "replay"
    /\ event_index <= Len(scrape_events)
    /\ scrape_events[event_index].type = "Action"
    /\ LET res == _execute_action(scrape_events[event_index].action,
                                  ReplayVariables, ReplayFiles, r)
       IN
       /\ calls' = IF IsNone(res.call) THEN calls
                   ELSE Append(calls, Call(Get(res.call).method,
                                           Get(res.call).value))
       /\ IF IsNone(res.raised)
          THEN /\ event_index' = event_index + 1
               /\ UNCHANGED <<pc, outcome, exception>>
          ELSE /\ Raises(Get(res.raised))
               /\ UNCHANGED event_index
    /\ UNCHANGED <<config, storage, markup, stream, twin, service, subscriptions, session, step, model_outputs,
                   run_config, run_state>>

\* the loop reaches DONE or WAIT: page.wait_for_timeout(5000)
ReplaySpecial ==
    /\ pc = "replay"
    /\ event_index <= Len(scrape_events)
    /\ scrape_events[event_index].type = "SpecialInstruction"
    /\ calls' = Append(calls, Call("wait_for_timeout", Some(5000)))
    /\ event_index' = event_index + 1
    /\ UNCHANGED <<config, storage, markup, stream, twin, service, subscriptions, session, step, pc, outcome,
                   exception, model_outputs, run_config, run_state>>

\* the for loop is exhausted: _execute returns
ReplayEnd ==
    /\ pc = "replay"
    /\ event_index > Len(scrape_events)
    /\ pc' = "terminated"
    /\ outcome' = "returned"
    /\ UNCHANGED <<config, subscriptions, session, step, exception, env,
                   outer>>

RunNext ==
    \/ Next
    \/ Launch
    \/ RunStartCallback
    \/ RunStartCallbackError
    \/ Cancel
    \/ TraceStop
    \/ TraceStopError
    \/ SaveTrace
    \/ SaveTraceError
    \/ CloseContext
    \/ CloseBrowser
    \/ RunEndCallback
    \/ PlaywrightExit
    \/ ReplayGoto
    \/ \E r \in BrowserResults : ReplayAction(r)
    \/ ReplaySpecial
    \/ ReplayEnd

RunSpec == RunInit /\ [][RunNext]_vars

(* ------------------ LocalFileClient: the scrape spec file -------------- *)

\* JSON values
JsonNull == [json |-> "null"]

JsonString(v) == [json |-> "string", value |-> v]

JsonNumber(v) == [json |-> "number", value |-> v]

JsonArray(items) == [json |-> "array", items |-> items]

JsonObject(fields) == [json |-> "object", fields |-> fields]

ActionType == {"click", "fill", "select", "check", "upload_file", "none"}

\* an Optional[str] field
DumpOptional(o) == IF IsNone(o) THEN JsonNull ELSE JsonString(Get(o))

DumpAction(a) ==
    JsonObject([element |->
                    JsonObject([role |-> DumpOptional(a.element.role),
                                name |-> DumpOptional(a.element.name),
                                selector |-> DumpOptional(a.element.selector)]),
                action_type |-> JsonString(a.action_type),
                action_value |-> DumpOptional(a.action_value)])

\* (variant) the enum member is written as an object, like a model
DumpEvent_EnumAsObject(ev) ==
    IF ev.type = "Action" THEN DumpAction(ev.action)
    ELSE JsonObject([value |-> JsonString(ev.value)])

\* an Action is written as an object, a SpecialInstruction (a str enum) as
\* the string of its value
DumpEvent(ev) ==
    IF ev.type = "Action" THEN DumpAction(ev.action)
    ELSE JsonString(ev.value)

\* ScrapeSpec.model_dump_json()
model_dump_json(sp) ==
    JsonObject([url |-> JsonString(sp.url),
                scrape_events |->
                    JsonArray([i \in 1..Len(sp.scrape_events) |->
                                   DumpEvent(sp.scrape_events[i])]),
                variables |->
                    JsonObject([k \in DOMAIN sp.variables |->
                                    JsonString(sp.variables[k])]),
                files |->
                    JsonObject([k \in DOMAIN sp.files |->
                                    JsonString(sp.files[k])]),
                viewport_width |-> JsonNumber(sp.viewport_width),
                viewport_height |-> JsonNumber(sp.viewport_height)])

IsOptionalString(j) == j.json \in {"null", "string"}

ValidateOptional(j) == IF j.json = "null" THEN None ELSE Some(j.value)

\* the value of an Optional field with default None
Field(fields, k) == IF k \in DOMAIN fields THEN fields[k] ELSE JsonNull

\* j validates as an ActionElement
IsActionElement(j) ==
    /\ j.json = "object"
    /\ \A k \in {"role", "name", "selector"} :
          IsOptionalString(Field(j.fields, k))

\* j validates as an Action
IsAction(j) ==
    /\ j.json = "object"
    /\ {"element", "action_type"} \subseteq DOMAIN j.fields
    /\ IsActionElement(j.fields.element)
    /\ j.fields.action_type.json = "string"
    /\ j.fields.action_type.value \in ActionType
    /\ IsOptionalString(Field(j.fields, "action_value"))

\* j validates as a SpecialInstruction
IsSpecialInstruction(j) ==
    j.json = "string" /\ j.value \in SpecialInstruction

ValidationError == [type |-> "ValidationError"]

\* validation against Union[Action, SpecialInstruction]: the members are
\* tried in order
ValidateEvent(j) ==
    IF IsAction(j)
    THEN ActionEvent(
             Action(ActionElement(
                        ValidateOptional(Field(j.fields.element.fields, "role")),
                        ValidateOptional(Field(j.fields.element.fields, "name")),
                        ValidateOptional(Field(j.fields.element.fields,
                                               "selector"))),
                    j.fields.action_type.value,
                    ValidateOptional(Field(j.fields, "action_value"))))
    ELSE IF IsSpecialInstruction(j) THEN SpecialEvent(j.value)
    ELSE ValidationError

\* ScrapeSpec.model_validate_json(text)
model_validate_json(j) ==
    LET f == j.fields
        events == [i \in 1..Len(f.scrape_events.items) |->
                       ValidateEvent(f.scrape_events.items[i])]
    IN IF \E i \in 1..Len(events) : events[i] = ValidationError
       THEN ValidationError
       ELSE ScrapeSpec(f.url.value, events,
                       [k \in DOMAIN f.variables.fields |->
                            f.variables.fields[k].value],
                       [k \in DOMAIN f.files.fields |-> f.files.fields[k].value],
                       f.viewport_height.value, f.viewport_width.value)

\* nothing runs: the executor attributes of a state in which only the file
\* client or the sanitizer is exercised
NoExecutor ==
    /\ max_page_views = None
    /\ max_total_actions = None
    /\ max_action_attempts_per_step = None
    /\ FreshExecutor
    /\ scrape_events = <<>>
    /\ pc = "not_started"
    /\ executor = "none"
    /\ file_client = TRUE
    /\ save_playwright_trace = FALSE
    /\ url = AiUrl
    /\ viewport = AiViewport
    /\ run_pc = "none"
    /\ browser = "none"
    /\ context = "none"
    /\ tracing = FALSE
    /\ http_client = "none"

\* a spec about to be saved
StoreInit ==
    /\ NoExecutor
    /\ \E sp \in ScrapeSpecs : scrape_spec = Some(sp)
    /\ NoStorage
    /\ NoMarkup
    /\ NoStream
    /\ NoTwin
    /\ NoService

\* LocalFileClient.save_scrape_spec
save_scrape_spec ==
    /\ executor = "none"
    /\ ~IsNone(scrape_spec)
    /\ disk' = Some(model_dump_json(Get(scrape_spec)))
    /\ UNCHANGED <<config, subscriptions, session, step, pc, outcome,
                   exception, env, run_config, run_state, event_index,
                   loaded, markup, stream, twin, service>>

\* LocalFileClient.load_scrape_spec
load_scrape_spec ==
    /\ executor = "none"
    /\ ~IsNone(disk)
    /\ loaded' = Some(model_validate_json(Get(disk)))
    /\ UNCHANGED <<config, subscriptions, session, step, pc, outcome,
                   exception, env, run_config, run_state, event_index,
                   disk, markup, stream, twin, service>>

StoreNext == save_scrape_spec \/ load_scrape_spec

StoreSpec == StoreInit /\ [][StoreNext]_vars

(* --------------------------- _get_html --------------------------------- *)

\* the parsed document: elements with attributes and children, and text
Element(tag, attrs, children) ==
    [node |-> "element", tag |-> tag, attrs |-> attrs, children |-> children]

Text(t) == [node |-> "text", text |-> t]

\* (variant) event handlers are let through
ALLOWED_TAG_SET_WithHandlers ==
    {"id", "for", "type", "allow", "aria-label", "onclick"}

ALLOWED_TAG_SET == {"id", "for", "type", "allow", "aria-label"}

NoAttrs == [k \in {} |-> ""]

\* the attribute tables of the elements of a page
AttrTables ==
    { NoAttrs,
      ("id" :> "x") @@ ("onclick" :> "y") @@ ("aria-label" :> "z"),
      ("class" :> "btn") @@ ("type" :> "submit") @@ ("style" :> "color:red") }

ScriptText == "alert(1)"

StyleText == "p { display: none }"

\* elements without element children
Leaves ==
    { Element("script", a, <<Text(ScriptText)>>) : a \in AttrTables }
    \cup { Element("style", a, <<Text(StyleText)>>) : a \in AttrTables }
    \cup { Element("button", a, <<Text("Submit")>>) : a \in AttrTables }

\* the nodes found under body: a leaf, or a div holding one
Nodes ==
    Leaves \cup { Element("div", a, <<c>>) : a \in AttrTables, c \in Leaves }

\* the documents page.content() returns, as lxml parses them: a head with
\* a script of its own and a body
Documents ==
    { Element("html", NoAttrs,
              << Element("head", NoAttrs,
                         <<Element("script", NoAttrs, <<Text(ScriptText)>>)>>),
                 Element("body", a, children) >>) :
        a \in AttrTables, children \in SeqsUpTo(Nodes, MaxBodyChildren) }

RECURSIVE Find(_, _)
\* soup.find(name): the first element of that name, in document order
Find(nodes, name) ==
    IF nodes = <<>> THEN None
    ELSE LET c == Head(nodes)
             inner == IF c.node = "element" THEN Find(c.children, name)
                      ELSE None
         IN IF c.node = "element" /\ c.tag = name THEN Some(c)
            ELSE IF ~IsNone(inner) THEN inner
            ELSE Find(Tail(nodes), name)

RECURSIVE Decompose(_, _)
\* decompose() on every element of that name among the nodes and below
Decompose(nodes, name) ==
    IF nodes = <<>> THEN <<>>
    ELSE LET c == Head(nodes)
             rest == Decompose(Tail(nodes), name)
         IN IF c.node = "element" /\ c.tag = name THEN rest
            ELSE IF c.node = "element"
            THEN <<[c EXCEPT !.children = Decompose(c.children, name)]>>
                 \o rest
            ELSE <<c>> \o rest

_strip_all_script_and_style_tags(element) ==
    [element EXCEPT
        !.children = Decompose(Decompose(element.children, "script"),
                               "style")]

RECURSIVE _strip_attributes_except_allowed_set(_)
\* every tag below the element, and the element itself, loses the
\* attributes outside the allowed set
_strip_attributes_except_allowed_set(element) ==
    IF element.node = "text" THEN element
    ELSE [element EXCEPT
             !.attrs = [k \in (DOMAIN element.attrs) \cap ALLOWED_TAG_SET |->
                            element.attrs[k]],
             !.children =
                 [i \in 1..Len(element.children) |->
                      _strip_attributes_except_allowed_set(
                          element.children[i])]]

\* ScrapeStepAiExecutor._get_html on the parsed content: the cleaned body
\* inside a html code fence
_get_html(html_content) ==
    LET body == Get(Find(<<html_content>>, "body")) IN
    [fence |-> "html",
     clean_html |->
         _strip_attributes_except_allowed_set(
             _strip_all_script_and_style_tags(body))]

\* a page about to be read
HtmlInit ==
    /\ NoExecutor
    /\ scrape_spec = None
    /\ NoStorage
    /\ page_content \in {Some(d) : d \in Documents}
    /\ html = None
    /\ NoStream
    /\ NoTwin
    /\ NoService

\* html_content = await self.page.content(), cleaned
ReadPage ==
    /\ executor = "none"
    /\ ~IsNone(page_content)
    /\ IsNone(html)
    /\ html' = Some(_get_html(Get(page_content)))
    /\ UNCHANGED <<config, subscriptions, session, step, pc, outcome,
                   exception, env, run_config, run_state, event_index,
                   storage, page_content, stream, twin, service>>

HtmlNext == ReadPage

HtmlSpec == HtmlInit /\ [][HtmlNext]_vars

(* =================== openai_stream_response_generator ================== *)

\* Text on the wire is a sequence of pieces: "da" and "ta:" are the two
\* halves of the prefix data:, "SP" is a space, "LF" a line feed, "{" and
\* "}" open and close the JSON object {"choices":[{"delta":{"content": ...}}]}
\* around its content, and "[DONE]" is the end marker.
DataPrefix == <<"da", "ta:">>

\* the content strings a payload may carry; the last one holds data: itself
Contents == { <<"Hel">>, <<"lo">>, <<"meta", "da", "ta:", "x">> }

\* what a server may send after the end marker
Trailers == { <<"late">> }

JsonContent(c) == <<"{">> \o c \o <<"}">>

\* one server-sent event: a data: line and a blank line
DataEvent(payload) == DataPrefix \o <<"SP">> \o payload \o <<"LF", "LF">>

RECURSIVE Flatten(_)
\* the concatenation of a sequence of texts
Flatten(texts) ==
    IF texts = <<>> THEN <<>> ELSE Head(texts) \o Flatten(Tail(texts))

\* the events of a sequence of content strings
ContentEvents(cs) == Flatten([i \in 1..Len(cs) |-> DataEvent(JsonContent(cs[i]))])

\* a response body: content payloads, the end marker, and what follows it
ResponseBody(before, after) ==
    ContentEvents(before) \o DataEvent(<<"[DONE]">>) \o ContentEvents(after)

\* s.startswith(p)
StartsWith(s, p) == Len(s) >= Len(p) /\ SubSeq(s, 1, Len(p)) = p

RECURSIVE Split(_, _)
\* s.split(sep)
Split(s, sep) ==
    LET at == {i \in 1..(Len(s) - Len(sep) + 1) :
                   SubSeq(s, i, i + Len(sep) - 1) = sep}
    IN IF at = {} THEN <<s>>
       ELSE LET i == CHOOSE k \in at : \A m \in at : k <= m
            IN <<SubSeq(s, 1, i - 1)>>
               \o Split(SubSeq(s, i + Len(sep), Len(s)), sep)

RECURSIVE Remove(_, _)
\* s.replace(old, "")
Remove(s, old) ==
    IF s = <<>> THEN <<>>
    ELSE IF StartsWith(s, old) THEN Remove(SubSeq(s, Len(old) + 1, Len(s)), old)
    ELSE <<Head(s)>> \o Remove(Tail(s), old)

RECURSIVE Strip(_)
\* s.strip()
Strip(s) ==
    IF s = <<>> THEN <<>>
    ELSE IF Head(s) \in {"SP", "LF"} THEN Strip(Tail(s))
    ELSE IF s[Len(s)] \in {"SP", "LF"} THEN Strip(SubSeq(s, 1, Len(s) - 1))
    ELSE s

\* json.loads(json_str) and block["choices"][0]["delta"]["content"]: the
\* content of a complete object, None when the text does not parse
json_loads(json_str) ==
    IF /\ Len(json_str) >= 2
       /\ json_str[1] = "{"
       /\ json_str[Len(json_str)] = "}"
       /\ \A i \in 2..(Len(json_str) - 1) : json_str[i] \notin {"{", "}"}
    THEN Some(SubSeq(json_str, 2, Len(json_str) - 1))
    ELSE None

\* json_str = line.replace("data:", "").strip()
JsonStr(line) == Strip(Remove(line, DataPrefix))

RECURSIVE ProcessLines(_, _)
\* for line in block_raw.split("\n"): lines without the prefix and lines
\* that do not parse are skipped, [DONE] breaks the loop over the lines of
\* this block, a content delta is appended and yielded
ProcessLines(lines, acc) ==
    IF lines = <<>> THEN acc
    ELSE LET line == Head(lines) IN
         IF ~StartsWith(line, DataPrefix)
         THEN ProcessLines(Tail(lines), acc)
         ELSE IF JsonStr(line) = <<"[DONE]">> THEN acc
         ELSE IF IsNone(json_loads(JsonStr(line)))
         THEN ProcessLines(Tail(lines), acc)
         ELSE LET text == acc.content \o Get(json_loads(JsonStr(line))) IN
              ProcessLines(Tail(lines),
                           [content |-> text,
                            yielded |-> Append(acc.yielded,
                                               [content |-> text])])

RECURSIVE ProcessBlocks(_, _)
\* for block_raw in response.split("\n\n")
ProcessBlocks(blocks, acc) ==
    IF blocks = <<>> THEN acc
    ELSE ProcessBlocks(Tail(blocks),
                       ProcessLines(Split(Head(blocks), <<"LF">>), acc))

\* the body of the async for: one chunk of the response
ProcessResponse(response, acc) ==
    ProcessBlocks(Split(response, <<"LF", "LF">>), acc)

\* a request has been sent and the response body is about to arrive
StreamInit ==
    /\ NoExecutor
    /\ scrape_spec = None
    /\ NoStorage
    /\ NoMarkup
    /\ NoTwin
    /\ NoService
    /\ \E before \in SeqsUpTo(Contents, MaxPayloads),
          after \in SeqsUpTo(Trailers, 1) :
          response_body = ResponseBody(before, after)
    /\ delivered = 0
    /\ content = <<>>
    /\ yielded = <<>>
    /\ generator = "streaming"
    /\ cut_inside_line = FALSE

\* response.aiter_text() hands over the next n pieces as one chunk
ReceiveChunk(n) ==
    /\ generator = "streaming"
    /\ delivered + n <= Len(response_body)
    /\ LET acc == ProcessResponse(SubSeq(response_body, delivered + 1, delivered + n),
                                  [content |-> content, yielded |-> yielded])
       IN /\ content' = acc.content
          /\ yielded' = acc.yielded
    /\ delivered' = delivered + n
    /\ cut_inside_line' = (cut_inside_line
                           \/ (delivered + n < Len(response_body)
                               /\ response_body[delivered + n] # "LF"))
    /\ UNCHANGED <<config, subscriptions, session, step, pc, outcome,
                   exception, env, run_config, run_state, event_index,
                   storage, markup, twin, service, response_body, generator>>

\* the response body is exhausted; no function call was streamed
StreamExhausted ==
    /\ generator = "streaming"
    /\ delivered = Len(response_body)
    /\ generator' = "finished"
    /\ UNCHANGED <<config, subscriptions, session, step, pc, outcome,
                   exception, env, run_config, run_state, event_index,
                   storage, markup, twin, service, response_body, delivered, content, yielded,
                   cut_inside_line>>

\* the transport raises (status other than 200, read error): the generator
\* yields an error item whose message is None
TransportError ==
    /\ generator = "streaming"
    /\ yielded' = Append(yielded, [error |-> None])
    /\ generator' = "failed"
    /\ UNCHANGED <<config, subscriptions, session, step, pc, outcome,
                   exception, env, run_config, run_state, event_index,
                   storage, markup, twin, service, response_body, delivered, content,
                   cut_inside_line>>

StreamNext ==
    \/ \E n \in 1..Len(response_body) : ReceiveChunk(n)
    \/ StreamExhausted
    \/ TransportError

StreamSpec == StreamInit /\ [][StreamNext]_vars

(* ================ two sessions and the same environment ================ *)

\* A first session runs without subscribers while the language model and
\* the browser decide their answer to each request; a second executor is
\* then constructed with the same arguments and some set of subscriber
\* queues, and runs against the same answers while the subscribers take
\* messages off their queues at their own pace.

\* the sets of queues the second executor is given
SubscriberSets == {{}, {"q1"}, {"q1", "q2"}}

\* the request the next-step stream is waiting on: the step and the text
\* received so far
StreamKey == <<scrape_page_view_count, Get(next_instruction)>>

\* the attempt the action-selection call about to be made belongs to
ChooseKey == <<scrape_page_view_count, actions_count + 1>>

\* the attempt being executed
ExecuteKey == <<scrape_page_view_count, actions_count>>

\* what the stream may do next: another fragment, its end, an error
StreamItems ==
    {[kind |-> "content", fragment |-> f] : f \in Fragments}
    \cup {[kind |-> "end", fragment |-> <<>>],
          [kind |-> "error", fragment |-> <<>>]}

\* what the action-selection call may return: an action or a failure
ChoiceItems ==
    {[kind |-> "action", action |-> Some(a)] : a \in ChosenActions}
    \cup {[kind |-> "error", action |-> None]}

\* the answers decided so far
Answers ==
    Cardinality(DOMAIN stream_script) + Cardinality(DOMAIN answer_script)
    + Cardinality(DOMAIN result_script)

\* the first session as constructed: no subscribers
ObsInit ==
    /\ max_page_views = Some(2)
    /\ max_total_actions = None
    /\ max_action_attempts_per_step = Some(2)
    /\ subscriptions = [q \in {} |-> <<>>]
    /\ scrape_page_view_count = 0
    /\ scrape_action_count = 0
    /\ previous_steps = <<>>
    /\ scrape_events = <<>>
    /\ step_max_action_attempts = None
    /\ actions_count = 0
    /\ next_step_chat = <<>>
    /\ choose_action_chat = <<>>
    /\ next_instruction = None
    /\ action = None
    /\ returned = None
    /\ output = None
    /\ pc = "goto"
    /\ outcome = "running"
    /\ exception = None
    /\ calls = <<>>
    /\ model_outputs = 0
    /\ executor = "ai"
    /\ file_client = FALSE
    /\ save_playwright_trace = FALSE
    /\ url = AiUrl
    /\ viewport = AiViewport
    /\ scrape_spec = None
    /\ run_pc = "execute"
    /\ browser = "open"
    /\ context = "open"
    /\ tracing = FALSE
    /\ trace_tempdir = "none"
    /\ saved_traces = <<>>
    /\ saved_scrape_specs = <<>>
    /\ http_client = "open"
    /\ run_exception = None
    /\ event_index = 0
    /\ NoStorage
    /\ NoMarkup
    /\ NoStream
    /\ NoService
    /\ phase = 1
    /\ stream_script = <<>>
    /\ answer_script = <<>>
    /\ result_script = <<>>
    /\ first = None

\* the language model decides how the next-step stream goes on
ModelStreams(item) ==
    /\ phase = 1
    /\ Answers < MaxAnswers
    /\ pc = "next_step"
    /\ StreamKey \notin DOMAIN stream_script
    /\ item.kind = "content" => model_outputs < MaxModelOutputs
    /\ stream_script' = (StreamKey :> item) @@ stream_script
    /\ UNCHANGED <<config, subscriptions, session, step, pc, outcome,
                   exception, env, run_config, run_state, event_index,
                   storage, markup, stream, service, phase, answer_script,
                   result_script, first>>

\* the language model decides its answer to the action-selection call
ModelAnswers(item) ==
    /\ phase = 1
    /\ Answers < MaxAnswers
    /\ pc = "choose_action"
    /\ ChooseKey \notin DOMAIN answer_script
    /\ item.kind = "action" => model_outputs < MaxModelOutputs
    /\ answer_script' = (ChooseKey :> item) @@ answer_script
    /\ UNCHANGED <<config, subscriptions, session, step, pc, outcome,
                   exception, env, run_config, run_state, event_index,
                   storage, markup, stream, service, phase, stream_script,
                   result_script, first>>

\* the browser decides how the action being executed ends
BrowserAnswers(r) ==
    /\ phase = 1
    /\ Answers < MaxAnswers
    /\ pc = "execute_action"
    /\ ExecuteKey \notin DOMAIN result_script
    /\ result_script' = (ExecuteKey :> r) @@ result_script
    /\ UNCHANGED <<config, subscriptions, session, step, pc, outcome,
                   exception, env, run_config, run_state, event_index,
                   storage, markup, stream, service, phase, stream_script,
                   answer_script, first>>

\* the steps of _execute that take an answer, each with the answer decided
\* for its request
ScriptedStreamContent(f) ==
    /\ pc = "next_step"
    /\ StreamKey \in DOMAIN stream_script
    /\ stream_script[StreamKey] = [kind |-> "content", fragment |-> f]
    /\ StreamContent(f)

ScriptedStreamEnd ==
    /\ pc = "next_step"
    /\ StreamKey \in DOMAIN stream_script
    /\ stream_script[StreamKey] = [kind |-> "end", fragment |-> <<>>]
    /\ StreamEnd

ScriptedStreamError ==
    /\ pc = "next_step"
    /\ StreamKey \in DOMAIN stream_script
    /\ stream_script[StreamKey] = [kind |-> "error", fragment |-> <<>>]
    /\ StreamError

ScriptedChooseAction(a) ==
    /\ pc = "choose_action"
    /\ ChooseKey \in DOMAIN answer_script
    /\ answer_script[ChooseKey] = [kind |-> "action", action |-> Some(a)]
    /\ ChooseAction(a)

ScriptedChooseActionError ==
    /\ pc = "choose_action"
    /\ ChooseKey \in DOMAIN answer_script
    /\ answer_script[ChooseKey] = [kind |-> "error", action |-> None]
    /\ ChooseActionError

ScriptedExecuteAction(r) ==
    /\ pc = "execute_action"
    /\ ExecuteKey \in DOMAIN result_script
    /\ result_script[ExecuteKey] = r
    /\ ExecuteAction(r)

\* what a session leaves behind: its event trace, its counters, the calls
\* it made to the model and to the browser, and how it ended
Observables ==
    [scrape_events |-> scrape_events,
     scrape_page_view_count |-> scrape_page_view_count,
     scrape_action_count |-> scrape_action_count,
     previous_steps |-> previous_steps,
     calls |-> calls,
     outcome |-> outcome,
     exception |-> exception]

\* the first session is over: a second executor is constructed with the
\* same arguments and the queues of S, and run
SecondSession(S) ==
    /\ phase = 1
    /\ pc = "terminated"
    /\ first' = Some(Observables)
    /\ phase' = 2
    /\ subscriptions' = [q \in S |-> <<>>]
    /\ scrape_page_view_count' = 0
    /\ scrape_action_count' = 0
    /\ previous_steps' = <<>>
    /\ scrape_events' = <<>>
    /\ step_max_action_attempts' = None
    /\ actions_count' = 0
    /\ next_step_chat' = <<>>
    /\ choose_action_chat' = <<>>
    /\ next_instruction' = None
    /\ action' = None
    /\ returned' = None
    /\ output' = None
    /\ pc' = "goto"
    /\ outcome' = "running"
    /\ exception' = None
    /\ calls' = <<>>
    /\ model_outputs' = 0
    /\ UNCHANGED <<config, run_config, run_state, event_index, storage,
                   markup, stream, service, stream_script, answer_script,
                   result_script>>

\* a subscriber takes the oldest message off its queue
Consume(q) ==
    /\ phase = 2
    /\ q \in DOMAIN subscriptions
    /\ subscriptions[q] # <<>>
    /\ subscriptions' = [subscriptions EXCEPT ![q] = Tail(@)]
    /\ UNCHANGED <<config, session, step, pc, outcome, exception, env, outer>>

ObsNext ==
    \/ Goto
    \/ StartStep
    \/ TakeScreenshot
    \/ \E item \in StreamItems : ModelStreams(item)
    \/ \E f \in Fragments : ScriptedStreamContent(f)
    \/ ScriptedStreamError
    \/ ScriptedStreamEnd
    \/ GetHtml
    \/ \E item \in ChoiceItems : ModelAnswers(item)
    \/ \E a \in ChosenActions : ScriptedChooseAction(a)
    \/ ScriptedChooseActionError
    \/ \E r \in BrowserResults : BrowserAnswers(r)
    \/ \E r \in BrowserResults : ScriptedExecuteAction(r)
    \/ ProcessStep
    \/ \E S \in SubscriberSets : SecondSession(S)
    \/ \E q \in Queues : Consume(q)

ObsSpec == ObsInit /\ [][ObsNext]_vars

(* ============== an AI session whose every call returns ================= *)

\* Both caps are set, the awaited calls of the language model and of the
\* browser all return, and the stream of the next-step model delivers at
\* most one fragment before it ends.  The budgets are small enough that
\* the answers of the language model never run out before the session ends.

\* <<max_page_views, max_total_actions, max_action_attempts_per_step>>
LiveBudgets ==
    { <<Some(0), None, Some(1)>>,
      <<Some(1), None, Some(-1)>>,
      <<Some(1), None, Some(3)>>,
      <<Some(1), Some(5), Some(2)>>,
      <<Some(2), None, Some(0)>>,
      <<Some(2), None, Some(1)>>,
      <<Some(2), Some(1), Some(1)>>,
      <<Some(2), Some(2), Some(2)>> }

\* an AI session constructed with both caps set
LiveInit ==
    /\ \E b \in LiveBudgets :
          /\ max_page_views = b[1]
          /\ max_total_actions = b[2]
          /\ max_action_attempts_per_step = b[3]
    /\ FreshExecutor
    /\ scrape_events = <<>>
    /\ pc = "goto"
    /\ executor = "ai"
    /\ file_client = FALSE
    /\ save_playwright_trace = FALSE
    /\ url = AiUrl
    /\ viewport = AiViewport
    /\ scrape_spec = None
    /\ run_pc = "execute"
    /\ browser = "open"
    /\ context = "open"
    /\ tracing = FALSE
    /\ http_client = "open"
    /\ NoStorage
    /\ NoMarkup
    /\ NoStream
    /\ NoTwin
    /\ NoService

\* the stream yields its only fragment
FirstStreamContent(f) ==
    /\ pc = "next_step"
    /\ Get(next_instruction) = <<>>
    /\ StreamContent(f)

\* the steps taken when the awaited call returns instead of raising
Returns ==
    \/ Goto
    \/ StartStep
    \/ TakeScreenshot
    \/ \E f \in Fragments : FirstStreamContent(f)
    \/ StreamEnd
    \/ GetHtml
    \/ \E a \in ChosenActions : ChooseAction(a)
    \/ \E r \in BrowserResults : ExecuteAction(r)
    \/ ProcessStep

LiveNext ==
    \/ Goto
    \/ StartStep
    \/ TakeScreenshot
    \/ \E f \in Fragments : FirstStreamContent(f)
    \/ StreamError
    \/ StreamEnd
    \/ GetHtml
    \/ \E a \in ChosenActions : ChooseAction(a)
    \/ ChooseActionError
    \/ \E r \in BrowserResults : ExecuteAction(r)
    \/ ProcessStep

\* a single asyncio task runs the session: whenever the call it awaits
\* returns, it takes its next step
LiveSpec == LiveInit /\ [][LiveNext]_vars /\ WF_vars(Returns)

(* ===================== the web service: TaskManager ==================== *)

\* TaskManager keeps the asyncio tasks it created in a dict by task id; each
\* task runs _execute_task around _run_scraper, which keeps the status of
\* its run in scraper_info_cache.  The event loop runs one task at a time
\* and switches only at an await, so each action below is one stretch of
\* code between two awaits.

\* the ids of the runs
TaskIds == {"r1", "r2", "r3"}

\* everything but the web service
engine == <<config, subscriptions, session, step, pc, outcome, exception, env,
            run_config, run_state, event_index, storage, markup, stream, twin>>

\* the web service has just started
ServiceInit ==
    /\ NoExecutor
    /\ scrape_spec = None
    /\ NoStorage
    /\ NoMarkup
    /\ NoStream
    /\ NoTwin
    /\ NoService

\* asyncio.create_task(self._execute_task(task_id, ...)): the task exists
\* but has not run yet
NewTask(task_id) ==
    [task_id |-> task_id, at |-> "created", must_cancel |-> FALSE,
     result |-> "pending"]

\* Task.cancel() on a task that is not done: the CancelledError is thrown
\* into the coroutine when the task runs next
Cancelled(task) ==
    IF task.at = "finished" THEN task ELSE [task EXCEPT !.must_cancel = TRUE]

\* TaskManager.add_task
add_task(task_id) ==
    /\ Len(handles) < MaxTasks
    /\ handles' = Append(handles, NewTask(task_id))
    /\ tasks' = (task_id :> Len(handles) + 1) @@ tasks
    /\ UNCHANGED <<status, engine>>

\* TaskManager.cancel_task
cancel_task(task_id) ==
    /\ handles' =
          IF task_id \in DOMAIN tasks /\ handles[tasks[task_id]].at # "finished"
          THEN [handles EXCEPT ![tasks[task_id]] = Cancelled(@)]
          ELSE handles
    /\ UNCHANGED <<tasks, status, engine>>

\* TaskManager.cancel_all_tasks
cancel_all_tasks ==
    /\ handles' =
          [h \in DOMAIN handles |->
              IF \E task_id \in DOMAIN tasks : tasks[task_id] = h
              THEN Cancelled(handles[h]) ELSE handles[h]]
    /\ tasks' = <<>>
    /\ UNCHANGED <<status, engine>>

\* del self.tasks[task_id] at the end of _execute_task, and how the task
\* ends: the table afterwards and the result of the task
Removed(h) ==
    IF handles[h].task_id \in DOMAIN tasks
    THEN [tasks |-> [task_id \in DOMAIN tasks \ {handles[h].task_id} |->
                        tasks[task_id]],
          result |-> "returned"]
    ELSE [tasks |-> tasks, result |-> "KeyError"]

\* the task ends with the del of _execute_task
Finish(h) ==
    /\ tasks' = Removed(h).tasks
    /\ handles' = [handles EXCEPT ![h].at = "finished",
                                  ![h].must_cancel = FALSE,
                                  ![h].result = Removed(h).result]

\* the first step of a task: _execute_task calls _run_scraper, which stores
\* a RunMessage with status running and awaits scraper.run()
StartTask(h) ==
    /\ h \in DOMAIN handles
    /\ handles[h].at = "created"
    /\ ~handles[h].must_cancel
    /\ handles' = [handles EXCEPT ![h].at = "running"]
    /\ status' = (handles[h].task_id :> "running") @@ status
    /\ UNCHANGED <<tasks, engine>>

\* the first step of a task cancelled before it: the CancelledError is
\* thrown into a coroutine that has not started, so no line of _execute_task
\* runs and the task ends cancelled
CancelledBeforeStart(h) ==
    /\ h \in DOMAIN handles
    /\ handles[h].at = "created"
    /\ handles[h].must_cancel
    /\ handles' = [handles EXCEPT ![h].at = "finished",
                                  ![h].must_cancel = FALSE,
                                  ![h].result = "cancelled"]
    /\ UNCHANGED <<tasks, status, engine>>

\* RunMessage._cleanup: the status is set, whatever it was
_cleanup(run, new_status) == [status EXCEPT ![run] = new_status]

\* scraper.run() returns: _run_scraper calls complete(), _execute_task ends
RunReturns(h) ==
    /\ h \in DOMAIN handles
    /\ handles[h].at = "running"
    /\ ~handles[h].must_cancel
    /\ status' = _cleanup(handles[h].task_id, "completed")
    /\ Finish(h)
    /\ UNCHANGED engine

\* scraper.run() raises an Exception: _run_scraper calls fail(str(e))
RunRaises(h) ==
    /\ h \in DOMAIN handles
    /\ handles[h].at = "running"
    /\ ~handles[h].must_cancel
    /\ status' = _cleanup(handles[h].task_id, "failed")
    /\ Finish(h)
    /\ UNCHANGED engine

\* the CancelledError reaches the await of scraper.run() and leaves
\* _run_scraper, whose except clause takes Exception only; _execute_task
\* catches it
CancelDelivered(h) ==
    /\ h \in DOMAIN handles
    /\ handles[h].at = "running"
    /\ handles[h].must_cancel
    /\ Finish(h)
    /\ UNCHANGED <<status, engine>>

\* the CancelledError reaches scraper.run(), whose finally block raises an
\* Exception of its own in its place: _run_scraper calls fail(str(e))
CancelCleanupRaises(h) ==
    /\ h \in DOMAIN handles
    /\ handles[h].at = "running"
    /\ handles[h].must_cancel
    /\ status' = _cleanup(handles[h].task_id, "failed")
    /\ Finish(h)
    /\ UNCHANGED engine

TaskNext ==
    \/ \E task_id \in TaskIds : add_task(task_id)
    \/ \E task_id \in TaskIds : cancel_task(task_id)
    \/ cancel_all_tasks
    \/ \E h \in 1..MaxTasks : StartTask(h)
    \/ \E h \in 1..MaxTasks : CancelledBeforeStart(h)
    \/ \E h \in 1..MaxTasks : RunReturns(h)
    \/ \E h \in 1..MaxTasks : RunRaises(h)
    \/ \E h \in 1..MaxTasks : CancelDelivered(h)
    \/ \E h \in 1..MaxTasks : CancelCleanupRaises(h)

TaskSpec == ServiceInit /\ [][TaskNext]_vars

(* ====================== the web service: routes ======================== *)

\* POST /scraper/run: a ScrapeExecutor with a fresh scrape_id is handed to
\* the task manager
run_scraper(scrape_id) ==
    /\ \A h \in DOMAIN handles : handles[h].task_id # scrape_id
    /\ add_task(scrape_id)

\* POST /scraper/stop/{scrape_id}: cancel_task, then stop() on the
\* RunMessage if the cache holds one; the lock is free whenever it is asked
\* for, since no holder awaits while holding it
processing_stop(scrape_id) ==
    /\ handles' =
          IF scrape_id \in DOMAIN tasks
             /\ handles[tasks[scrape_id]].at # "finished"
          THEN [handles EXCEPT ![tasks[scrape_id]] = Cancelled(@)]
          ELSE handles
    /\ status' = IF scrape_id \in DOMAIN status
                 THEN _cleanup(scrape_id, "stopped")
                 ELSE status
    /\ UNCHANGED <<tasks, engine>>

ServiceNext ==
    \/ \E scrape_id \in TaskIds : run_scraper(scrape_id)
    \/ \E scrape_id \in TaskIds : processing_stop(scrape_id)
    \/ \E h \in 1..MaxTasks : StartTask(h)
    \/ \E h \in 1..MaxTasks : CancelledBeforeStart(h)
    \/ \E h \in 1..MaxTasks : RunReturns(h)
    \/ \E h \in 1..MaxTasks : RunRaises(h)
    \/ \E h \in 1..MaxTasks : CancelDelivered(h)
    \/ \E h \in 1..MaxTasks : CancelCleanupRaises(h)

ServiceSpec == ServiceInit /\ [][ServiceNext]_vars





(* ======================================================================= *)
(*                               properties                                *)
(* ======================================================================= *)

\* a step executor exists and has not yet been processed by the session
StepPcs == {"screenshot", "next_step", "html", "choose_action",
            "execute_action", "returned"}

InStep == pc \in StepPcs

HasToken(instruction) == Contains(instruction, DONE) \/ Contains(instruction, WAIT)

Last(seq) == seq[Len(seq)]

DoneEvent == SpecialEvent("DONE")

WaitEvent == SpecialEvent("WAIT")

\* the next-step stream of the current step has ended (the assistant message
\* is in the chat) with an instruction holding neither DONE nor WAIT
PlainInstructionReturned ==
    /\ Len(next_step_chat) = 3
    /\ ~IsNone(next_instruction)
    /\ ~HasToken(Get(next_instruction))

(* ------------------------------------------------------------------------ *)
\* C1: if the instruction of the first step contains DONE, the session ends
\* successfully after exactly one page view, with scrape_events = [DONE] and
\* scrape_action_count = 0, whatever the three budgets are: from the moment
\* the first step has the instruction until the session has ended nothing is
\* recorded, and once the step is processed the session is over.
C1_DoneOnFirstStep ==
    /\ (/\ scrape_page_view_count = 1
        /\ pc \in {"html", "returned"}
        /\ Contains(Get(next_instruction), DONE))
       => /\ scrape_events = <<>>
          /\ scrape_action_count = 0
          /\ outcome = "running"
          /\ pc = "returned" => Get(returned) = StepResult(next_instruction, None, 0)
    /\ (Len(previous_steps) >= 1 /\ Contains(previous_steps[1], DONE))
       => /\ pc = "terminated"
          /\ outcome = "returned"
          /\ scrape_page_view_count = 1
          /\ scrape_events = <<DoneEvent>>
          /\ scrape_action_count = 0

\* the first step said DONE with both budgets already used up
C1_Witness ==
    /\ pc = "terminated"
    /\ outcome = "returned"
    /\ Len(previous_steps) = 1
    /\ Contains(previous_steps[1], DONE)
    /\ max_page_views = Some(1)
    /\ max_total_actions = Some(0)

(* ------------------------------------------------------------------------ *)
\* C2 as claimed: with max_page_views = 1 and a first instruction holding
\* neither DONE nor WAIT, the session ends with MaxPageViewsReachedException
\* after one step, whatever the step's action attempts did (stated here for
\* the steps that ran to their end, with an action or with attempts used up).
C2_AlwaysMaxPageViews ==
    (/\ max_page_views = Some(1)
     /\ pc = "terminated"
     /\ PlainInstructionReturned
     /\ ~IsNone(returned))
    => /\ scrape_page_view_count = 1
       /\ outcome = "MaxPageViewsReachedException"

\* C2 as amended: such a session ends after exactly one step; it ends with
\* MaxPageViewsReachedException when the step returns (its action succeeded
\* or its attempts were exhausted) and max_total_actions is unset or above
\* the attempts the step made, with MaxTotalActionsReachedException when the
\* step returns and the attempts reach max_total_actions, and with the
\* exception of the attempt when an attempt fails non-recoverably.
C2_OneStepThenBudgetOrError ==
    (/\ max_page_views = Some(1)
     /\ pc = "terminated"
     /\ PlainInstructionReturned)
    => /\ scrape_page_view_count = 1
       /\ Len(previous_steps) = (IF IsNone(returned) THEN 0 ELSE 1)
       /\ outcome =
            IF IsNone(returned) THEN Get(exception).kind
            ELSE IF /\ ~IsNone(max_total_actions)
                    /\ Get(returned).action_count >= Get(max_total_actions)
            THEN "MaxTotalActionsReachedException"
            ELSE "MaxPageViewsReachedException"
       /\ IsNone(returned) =>
            Get(exception).kind \in {"ActionNotFoundException", "Error",
                                     "HTTPStatusError"}

\* the page-view failure after one step whose single attempt succeeded
C2_Witness ==
    /\ max_page_views = Some(1)
    /\ pc = "terminated"
    /\ PlainInstructionReturned
    /\ outcome = "MaxPageViewsReachedException"
    /\ Len(scrape_events) = 1
    /\ scrape_action_count = 1

(* ------------------------------------------------------------------------ *)
\* C3: when both caps are set, the max_action_attempts the step executor was
\* constructed with is min(max_action_attempts_per_step, max_total_actions -
\* scrape_action_count), with the scrape_action_count of that step.
C3_MinOfBothCaps ==
    (/\ InStep
     /\ ~IsNone(max_action_attempts_per_step)
     /\ ~IsNone(max_total_actions))
    => /\ ~IsNone(step_max_action_attempts)
       /\ Get(step_max_action_attempts) <= Get(max_action_attempts_per_step)
       /\ Get(step_max_action_attempts)
             <= Get(max_total_actions) - scrape_action_count
       /\ \/ Get(step_max_action_attempts) = Get(max_action_attempts_per_step)
          \/ Get(step_max_action_attempts)
               = Get(max_total_actions) - scrape_action_count

\* caps 5 and 5 with 3 actions consumed: the step is handed 2
C3_Witness ==
    /\ InStep
    /\ max_action_attempts_per_step = Some(5)
    /\ max_total_actions = Some(5)
    /\ scrape_action_count = 3
    /\ step_max_action_attempts = Some(2)

(* ------------------------------------------------------------------------ *)
\* C4 as claimed: with exactly one cap set the step is handed that cap (the
\* per-step cap, or the remaining total budget), with none set it is handed
\* None.
C4_WhicheverIsSet ==
    InStep =>
      /\ (~IsNone(max_action_attempts_per_step) /\ IsNone(max_total_actions))
           => step_max_action_attempts = max_action_attempts_per_step
      /\ (IsNone(max_action_attempts_per_step) /\ ~IsNone(max_total_actions))
           => step_max_action_attempts
                = Some(Get(max_total_actions) - scrape_action_count)
      /\ (IsNone(max_action_attempts_per_step) /\ IsNone(max_total_actions))
           => step_max_action_attempts = None

(* ------------------------------------------------------------------------ *)
\* the session has just taken the result of a step whose instruction does not
\* contain DONE
NotDoneStepReturned ==
    /\ pc = "returned"
    /\ ~Contains(Get(Get(returned).next_instruction), DONE)

BudgetFailures ==
    {"MaxTotalActionsReachedException", "MaxPageViewsReachedException"}

\* the budget checks as the claims state them, on the counters after the step
BudgetVerdict(action_count, page_view_count) ==
    IF ~IsNone(max_total_actions) /\ action_count >= Get(max_total_actions)
    THEN "MaxTotalActionsReachedException"
    ELSE IF ~IsNone(max_page_views) /\ page_view_count >= Get(max_page_views)
    THEN "MaxPageViewsReachedException"
    ELSE "running"

\* C5: after every step whose instruction is not DONE the session raises
\* MaxTotalActionsReachedException if max_total_actions is set and reached,
\* otherwise MaxPageViewsReachedException if max_page_views is set and
\* reached, otherwise goes back to the head of the loop; a budget failure is
\* final: no step is started after it and the outcome stays.
BudgetChecksAfterStep ==
    /\ NotDoneStepReturned =>
         /\ outcome' = BudgetVerdict(scrape_action_count',
                                     scrape_page_view_count')
         /\ pc' = (IF outcome' = "running" THEN "loop" ELSE "terminated")
         /\ outcome' # "running" => Get(exception').kind = outcome'
    /\ outcome \in BudgetFailures =>
         /\ outcome' = outcome
         /\ pc' = "terminated"
         /\ UNCHANGED session

C5_BudgetChecks == [][BudgetChecksAfterStep]_vars

\* the page-view failure raised although a total-action budget is set, and
\* a second step started after budget checks that passed
C5_Witness ==
    /\ outcome = "MaxPageViewsReachedException"
    /\ scrape_page_view_count = 2
    /\ ~IsNone(max_total_actions)
    /\ scrape_action_count >= 1

(* ------------------------------------------------------------------------ *)
\* C6: whenever a step returns an instruction containing DONE the session
\* appends DONE to scrape_events and leaves the loop without an exception,
\* and no step follows; hence the trace of every session that ended
\* successfully ends with DONE.
DoneStepReturned ==
    /\ pc = "returned"
    /\ Contains(Get(Get(returned).next_instruction), DONE)

DoneStepEndsLoop ==
    /\ DoneStepReturned =>
         /\ Len(scrape_events') = Len(scrape_events) + 1
         /\ Last(scrape_events') = DoneEvent
         /\ pc' = "terminated"
         /\ outcome' = "returned"
         /\ exception' = exception
    /\ outcome = "returned" =>
         /\ outcome' = outcome
         /\ pc' = "terminated"
         /\ UNCHANGED session

C6_DoneEndsSession ==
    /\ [][DoneStepEndsLoop]_vars
    /\ [](outcome = "returned" =>
             /\ pc = "terminated"
             /\ Len(scrape_events) >= 1
             /\ Last(scrape_events) = DoneEvent
             /\ Contains(Last(previous_steps), DONE))

\* a session that ended successfully on its third page view, after an
\* action and a WAIT
C6_Witness ==
    /\ outcome = "returned"
    /\ scrape_page_view_count = 3
    /\ Len(scrape_events) = 3
    /\ scrape_events[1].type = "Action"
    /\ scrape_events[2] = WaitEvent

(* ------------------------------------------------------------------------ *)
\* C7: a step whose instruction contains WAIT and not DONE appends WAIT to
\* scrape_events, costs exactly one page view (counted when the step
\* starts, and by no other transition), leaves scrape_action_count as it
\* was, and is followed by another step unless a budget check fails.
WaitStepReturned ==
    /\ pc = "returned"
    /\ Contains(Get(Get(returned).next_instruction), WAIT)
    /\ ~Contains(Get(Get(returned).next_instruction), DONE)

WaitStepCounts ==
    /\ scrape_page_view_count' =
         scrape_page_view_count + (IF pc = "loop" THEN 1 ELSE 0)
    /\ pc # "returned" => scrape_action_count' = scrape_action_count
    /\ WaitStepReturned =>
         /\ scrape_events' = Append(scrape_events, WaitEvent)
         /\ scrape_action_count' = scrape_action_count
         /\ outcome' = BudgetVerdict(scrape_action_count,
                                     scrape_page_view_count)
         /\ pc' = (IF outcome' = "running" THEN "loop" ELSE "terminated")

C7_WaitStep ==
    /\ [][WaitStepCounts]_vars
    /\ [](InStep => scrape_page_view_count = Len(previous_steps) + 1)
    /\ [](WaitStepReturned => actions_count = 0 /\ IsNone(action))

\* two WAIT steps behind, the session is about to start its third step
C7_Witness ==
    /\ pc = "loop"
    /\ scrape_events = <<WaitEvent, WaitEvent>>
    /\ scrape_page_view_count = 2
    /\ scrape_action_count = 0

(* ------------------------------------------------------------------------ *)
\* the three failure classes the loop recovers from, as the claim names them
IsTimeout(e) == e.kind = "TimeoutError"

IsInvalidSelector(e) ==
    e.kind # "TimeoutError" /\ TextContains(e, InvalidSelectorText)

IsStrictMode(e) ==
    /\ e.kind # "TimeoutError"
    /\ ~TextContains(e, InvalidSelectorText)
    /\ TextContains(e, StrictModeText)

Recoverable(e) == IsTimeout(e) \/ IsInvalidSelector(e) \/ IsStrictMode(e)

CorrectiveFor(e) ==
    IF IsTimeout(e) THEN TimeoutMessage
    ELSE IF IsInvalidSelector(e) THEN InvalidSelectorMessage
    ELSE StrictModeMessage

\* the attempt being executed fails: an exception is raised by this step
AttemptFails == pc = "execute_action" /\ pc' # "returned" /\ ~IsNone(exception')

RetryOnlyRecoverable ==
    \* a failed attempt is followed by another one only for the three classes
    \* and only after the corrective message of its class
    /\ (pc = "execute_action" /\ pc' = "choose_action") =>
         /\ ~IsNone(exception')
         /\ Recoverable(Get(exception'))
         /\ choose_action_chat' =
              Append(choose_action_chat,
                     ModelChat("user",
                               [text |-> CorrectiveFor(Get(exception'))]))
         /\ outcome' = "running"
    \* any other exception leaves the session at once, nothing appended
    /\ (AttemptFails /\ ~Recoverable(Get(exception'))) =>
         /\ pc' = "terminated"
         /\ outcome' = Get(exception').kind
         /\ UNCHANGED <<choose_action_chat, session>>
    \* a failure of the action-selection call is never retried
    /\ (pc = "choose_action" /\ outcome' # "running") =>
         /\ pc' = "terminated"
         /\ outcome' = "HTTPStatusError"
         /\ UNCHANGED <<choose_action_chat, actions_count, session>>

\* an ActionNotFoundException always leaves the session, never retried
ActionNotFoundPropagates ==
    (AttemptFails /\ Get(exception').kind = "ActionNotFoundException") =>
        /\ pc' = "terminated"
        /\ outcome' = "ActionNotFoundException"
        /\ UNCHANGED choose_action_chat

\* C8: in the choose-and-execute loop a failed attempt is retried, after a
\* corrective user message, only for a browser TimeoutError, an error whose
\* text contains 'is not a valid selector' or one whose text contains
\* 'strict mode violation', each class with its own message; every other
\* exception propagates at once and ends the session, and so do every
\* ActionNotFoundException and every failure of the action-selection call.
C8_RetryPolicy ==
    /\ [][RetryOnlyRecoverable /\ ActionNotFoundPropagates]_vars
    /\ [](/\ TimeoutMessage # InvalidSelectorMessage
           /\ TimeoutMessage # StrictModeMessage
           /\ InvalidSelectorMessage # StrictModeMessage)

\* the part of C8 that the retry loop keeps: the three classes, their
\* messages, and the propagation of every exception outside them
C8_ClassesAndMessages ==
    /\ [][RetryOnlyRecoverable]_vars
    /\ [](/\ TimeoutMessage # InvalidSelectorMessage
           /\ TimeoutMessage # StrictModeMessage
           /\ InvalidSelectorMessage # StrictModeMessage)

\* three failed attempts, one of each class, each answered by its message
C8_ThreeClassesRetried ==
    /\ pc = "choose_action"
    /\ actions_count = 3
    /\ \E i, j, k \in 1..Len(choose_action_chat) :
          /\ choose_action_chat[i] = ModelChat("user", [text |-> TimeoutMessage])
          /\ choose_action_chat[j] =
               ModelChat("user", [text |-> InvalidSelectorMessage])
          /\ choose_action_chat[k] =
               ModelChat("user", [text |-> StrictModeMessage])

(* ------------------------------------------------------------------------ *)
\* the attempt being executed fails recoverably with the attempts used up
ExhaustingFailure ==
    /\ pc = "execute_action"
    /\ ~IsNone(exception')
    /\ Recoverable(Get(exception'))
    /\ ~IsNone(step_max_action_attempts)
    /\ actions_count >= Get(step_max_action_attempts)

\* the session takes the result of a step that gave up: no action, and an
\* instruction without DONE or WAIT
ExhaustedStepReturned ==
    /\ pc = "returned"
    /\ IsNone(Get(returned).action)
    /\ ~HasToken(Get(Get(returned).next_instruction))

SoftStopOnExhaustion ==
    /\ ExhaustingFailure =>
         /\ pc' = "returned"
         /\ returned' = Some(StepResult(next_instruction, None, actions_count))
         /\ outcome' = "running"
         /\ UNCHANGED session
    /\ ExhaustedStepReturned =>
         /\ scrape_events' = scrape_events
         /\ scrape_action_count' = scrape_action_count + actions_count
         /\ previous_steps' = Append(previous_steps, Get(next_instruction))
         /\ outcome' \in {"running"} \cup BudgetFailures
         /\ outcome' = BudgetVerdict(scrape_action_count + actions_count,
                                     scrape_page_view_count)
         /\ pc' = (IF outcome' = "running" THEN "loop" ELSE "terminated")

\* C9: when the recoverable failures of a step reach max_action_attempts the
\* step returns (instruction, no action, attempts taken) and raises nothing;
\* the session appends no event for the step, adds the attempts to
\* scrape_action_count and goes on to the budget checks, which alone decide
\* whether another step follows.
C9_SoftStopOnExhaustion ==
    /\ [][SoftStopOnExhaustion]_vars
    /\ [](ExhaustedStepReturned =>
             /\ actions_count >= 1
             /\ Get(returned).action_count = actions_count
             /\ ~IsNone(step_max_action_attempts)
             /\ actions_count >= Get(step_max_action_attempts))

\* a step gave up after two attempts and the session goes on to a next step
C9_Witness ==
    /\ pc = "screenshot"
    /\ scrape_page_view_count = 2
    /\ scrape_events = <<>>
    /\ scrape_action_count = 2
    /\ max_action_attempts_per_step = Some(2)

(* ------------------------------------------------------------------------ *)
\* the next-step stream has just yielded an error item
StreamReportsError ==
    /\ pc = "next_step"
    /\ ~IsNone(output')
    /\ "error" \in DOMAIN Get(output')

CallsOfStep(n) == {i \in 1..Len(calls) : calls[i].step = n}

NextStepFailure ==
    /\ StreamReportsError =>
         /\ pc' = "terminated"
         /\ outcome' = "NextStepNotFoundException"
         /\ Get(exception').kind = "NextStepNotFoundException"
         /\ UNCHANGED <<session, calls, actions_count, choose_action_chat>>
    \* the events and the action count move only when a step is processed
    /\ pc # "returned" => UNCHANGED <<scrape_events, scrape_action_count>>

\* C10: if the next-step stream reports an error the step fails with
\* NextStepNotFoundException and the session ends with scrape_events and
\* scrape_action_count as they were when the step started; the step makes
\* no action-selection call and no browser action.
C10_NextStepFailure ==
    /\ [][NextStepFailure]_vars
    /\ [](outcome = "NextStepNotFoundException" =>
             /\ pc = "terminated"
             /\ actions_count = 0
             /\ IsNone(action)
             /\ IsNone(returned)
             /\ Len(previous_steps) = scrape_page_view_count - 1
             /\ \A i \in CallsOfStep(scrape_page_view_count) :
                   calls[i].call \in {"screenshot", "next_step"})

\* the stream fails in the second step, after it had yielded some text,
\* with an action of the first step on record
C10_Witness ==
    /\ outcome = "NextStepNotFoundException"
    /\ scrape_page_view_count = 2
    /\ Len(scrape_events) = 1
    /\ scrape_action_count = 2
    /\ Len(Get(next_instruction)) > 0

(* ------------------------- run() and replay ---------------------------- *)

\* the ways _execute of an AI session ends by itself: DONE, a budget
\* exception, a model failure, a non-retryable action failure
ExecuteExits ==
    {"returned", "MaxTotalActionsReachedException",
     "MaxPageViewsReachedException", "NextStepNotFoundException",
     "HTTPStatusError", "ActionNotFoundException", "Error"}

\* the spec holding exactly the events accumulated so far
AccumulatedSpec ==
    [url |-> url, scrape_events |-> scrape_events, variables |-> variables,
     files |-> files, viewport_height |-> viewport.height,
     viewport_width |-> viewport.width]

\* the finally block of run was left by an exception of its own
FinallyAborted ==
    /\ run_pc \in {"playwright_exit", "exited"}
    /\ ~IsNone(run_exception)
    /\ trace_tempdir = "exists"

\* C11: for an AI-driven session with a file client, on every way _execute
\* can exit (DONE, either budget exception, model failure, non-retryable
\* action failure) the ScrapeSpec holding exactly the events accumulated so
\* far has been persisted exactly once when run() is left; a replay
\* session never persists a spec.
C11_SpecPersistedOnce ==
    /\ (executor = "ai" /\ file_client /\ run_pc = "exited"
        /\ outcome \in ExecuteExits)
       => saved_scrape_specs = <<AccumulatedSpec>>
    /\ executor = "replay" => saved_scrape_specs = <<>>

\* C11, the part the code keeps: the spec is persisted once, with the
\* accumulated events, whenever the finally block runs to its end, never
\* more than once, and never by a replay.
C11_PersistedWhenFinallyCompletes ==
    /\ (executor = "ai" /\ file_client /\ run_pc = "exited"
        /\ outcome # "running" /\ ~FinallyAborted)
       => saved_scrape_specs = <<AccumulatedSpec>>
    /\ Len(saved_scrape_specs) <= 1
    /\ executor = "replay" => saved_scrape_specs = <<>>

\* a session that recorded an action and failed on a budget has left run
\* with its spec saved
C11_SavedAfterBudgetFailure ==
    /\ executor = "ai"
    /\ run_pc = "exited"
    /\ outcome = "MaxPageViewsReachedException"
    /\ Len(scrape_events) = 1
    /\ saved_scrape_specs = <<AccumulatedSpec>>

\* C12: on every exit path of run after the browser context is created
\* (normal return, exception from _execute, exception from
\* _run_start_callback, failure of trace stop/save, cancellation during a
\* call in flight) the browser context and the browser are closed and the
\* temporary trace directory, when tracing is on, is cleaned up.
C12_ReleasedOnEveryExit ==
    (run_pc = "exited" /\ context # "none")
    => /\ context \in {"closed", "killed"}
       /\ browser \in {"closed", "killed"}
       /\ save_playwright_trace => trace_tempdir # "exists"

\* the calls of run itself, as opposed to those of _execute
RunCalls == {"launch", "new_context", "tracing.start", "new_page",
             "tracing.stop", "context.close", "browser.close"}

IsExecuteCall(c) == c.call \notin RunCalls

\* the calls _execute has made, in order
ExecuteCalls == SelectSeq(calls, IsExecuteCall)

\* the events of the replayed spec the loop has attempted so far
Attempted ==
    IF event_index = 0 THEN 0
    ELSE event_index - 1
         + (IF outcome \in {"running", "returned", "CancelledError"}
            THEN 0 ELSE 1)

\* the browser method that replays an event
Method(ev) ==
    IF ev.type = "SpecialInstruction" THEN "wait_for_timeout"
    ELSE CASE ev.action.action_type = "click" -> "click"
           [] ev.action.action_type = "fill" -> "fill"
           [] ev.action.action_type = "select" -> "select_option"
           [] ev.action.action_type = "check" -> "check"
           [] ev.action.action_type = "upload_file" -> "set_input_files"

IsActionOf(ev, type) == ev.type = "Action" /\ ev.action.action_type = type

\* C13: replaying a ScrapeSpec executes its scrape_events strictly in
\* recorded order, each Action attempted exactly once, and makes no call to
\* the language model; the variables, files, url and viewport used are
\* those stored in the spec.
C13_ReplayInOrder ==
    executor = "replay" =>
      LET sp == Get(scrape_spec) IN
      /\ model_outputs = 0
      /\ \A i \in 1..Len(calls) :
            /\ calls[i].call \notin {"next_step", "choose_action"}
            /\ calls[i].call = "new_context" =>
                  calls[i].arg = Some([width |-> sp.viewport_width,
                                       height |-> sp.viewport_height])
      /\ event_index > 0 => Len(ExecuteCalls) = Attempted + 1
      /\ event_index = 0 => ExecuteCalls = <<>>
      /\ ExecuteCalls # <<>> =>
            /\ ExecuteCalls[1].call = "goto"
            /\ ExecuteCalls[1].arg = Some(sp.url)
      /\ \A k \in 1..Attempted :
            LET ev == sp.scrape_events[k]
                c == ExecuteCalls[k + 1]
            IN /\ c.call = Method(ev)
               /\ (IsActionOf(ev, "fill")
                   /\ Get(ev.action.action_value) \in DOMAIN sp.variables)
                  => c.arg = Some(sp.variables[Get(ev.action.action_value)])
               /\ IsActionOf(ev, "upload_file")
                  => c.arg = Some(sp.files[Get(ev.action.action_value)])
      /\ (pc = "terminated" /\ outcome = "returned")
         => Attempted = Len(sp.scrape_events)

\* a replay of a fill of a variable followed by an upload has run to its end
C13_Witness ==
    /\ executor = "replay"
    /\ run_pc = "exited"
    /\ outcome = "returned"
    /\ Len(scrape_events) = 2
    /\ IsActionOf(scrape_events[1], "fill")
    /\ scrape_events[1].action.action_value = Some("username")
    /\ IsActionOf(scrape_events[2], "upload_file")
    /\ Len(ExecuteCalls) = 3
    /\ ExecuteCalls[2].arg = Some("carol")

\* outcome is the kind of an exception _execute_action raised
ReplayFailed ==
    /\ executor = "replay"
    /\ outcome \notin {"running", "returned", "CancelledError"}

\* a failing replay step ends _execute with the error, at the same event
ReplayFailureAborts ==
    (executor = "replay" /\ pc = "replay" /\ ~IsNone(exception')
     /\ Get(exception').kind # "CancelledError")
    => /\ pc' = "terminated"
       /\ outcome' = Get(exception').kind
       /\ event_index' = event_index
       /\ Len(calls') = Len(calls) + 1

\* after a failure the failing event was attempted once and nothing later
ReplayStopsAtFailure ==
    ReplayFailed =>
      /\ pc = "terminated"
      /\ Len(ExecuteCalls) = event_index + 1
      /\ ExecuteCalls[event_index + 1].call
             = Method(scrape_events[event_index])

\* C14: during replay the first Action whose execution fails aborts the
\* replay with that error after a single attempt: the action is not
\* retried, no later event of the spec is executed, and the error
\* propagates to the caller of run().
C14_FirstFailureAborts ==
    /\ [][ReplayFailureAborts]_vars
    /\ [](ReplayStopsAtFailure)
    /\ []((ReplayFailed /\ run_pc = "exited") => run_exception = exception)

\* C14, the part the code keeps: the failure ends _execute at once, and it
\* is the exception that leaves run whenever the finally block runs to its
\* end.
C14_AbortsExecute ==
    /\ [][ReplayFailureAborts]_vars
    /\ [](ReplayStopsAtFailure)
    /\ []((ReplayFailed /\ run_pc = "exited" /\ ~FinallyAborted)
          => run_exception = exception)

\* a replay failed on its first event with a second one still to come
C14_FailedOnFirstEvent ==
    /\ ReplayFailed
    /\ run_pc = "exited"
    /\ outcome = "TimeoutError"
    /\ event_index = 1
    /\ Len(scrape_events) = 2
    /\ run_exception = exception

\* C15: during replay a DONE event sleeps the fixed interval and then ends
\* the replay: no event positioned after a DONE event is executed.
C15_DoneEndsReplay ==
    executor = "replay" =>
      \A k \in 1..Attempted :
         /\ scrape_events[k] = SpecialEvent("DONE")
            => ExecuteCalls[k + 1] = [step |-> 0, call |-> "wait_for_timeout",
                                      arg |-> Some(5000)]
         /\ \A i \in 1..(k - 1) : scrape_events[i] # SpecialEvent("DONE")

\* C16: for every fill action the value typed into the element is
\* variables[action_value] when action_value is a key of the variables
\* table, and the literal action_value otherwise.
C16_FillSubstitutes ==
    executor = "replay" =>
      \A k \in 1..Attempted :
         IsActionOf(scrape_events[k], "fill") =>
            LET value == Get(scrape_events[k].action.action_value)
                table == Get(scrape_spec).variables
            IN /\ ExecuteCalls[k + 1].call = "fill"
               /\ ExecuteCalls[k + 1].arg =
                      Some(IF value \in DOMAIN table THEN table[value]
                           ELSE value)

\* a fill of a variable and a fill of a literal have both been typed
C16_Witness ==
    /\ executor = "replay"
    /\ Len(scrape_events) = 2
    /\ Attempted = 2
    /\ IsActionOf(scrape_events[1], "fill")
    /\ IsActionOf(scrape_events[2], "fill")
    /\ scrape_events[1].action.action_value = Some("username")
    /\ scrape_events[2].action.action_value = Some("bob")
    /\ ExecuteCalls[2].call = "fill"
    /\ ExecuteCalls[2].arg = Some("carol")
    /\ ExecuteCalls[3].call = "fill"
    /\ ExecuteCalls[3].arg = Some("bob")

\* C17: for every select action the option value passed to the browser is
\* variables[action_value] when action_value is a key of the variables
\* table, and the literal action_value otherwise.
C17_SelectSubstitutes ==
    executor = "replay" =>
      \A k \in 1..Attempted :
         IsActionOf(scrape_events[k], "select") =>
            LET value == Get(scrape_events[k].action.action_value)
                table == Get(scrape_spec).variables
            IN /\ ExecuteCalls[k + 1].call = "select_option"
               /\ ExecuteCalls[k + 1].arg =
                      Some(IF value \in DOMAIN table THEN table[value]
                           ELSE value)

(* ------------------------------ counters ------------------------------- *)

CountersStep ==
    /\ scrape_page_view_count' >= scrape_page_view_count
    /\ scrape_action_count' >= scrape_action_count
    \* a step is started by leaving the head of the loop
    /\ (pc = "loop" /\ pc' # "loop")
       => scrape_page_view_count' = scrape_page_view_count + 1
    /\ scrape_page_view_count' # scrape_page_view_count
       => (pc = "loop" /\ pc' = "screenshot")

\* C20: scrape_page_view_count and scrape_action_count never decrease
\* during a session: every transition leaves each counter unchanged or
\* increases it, and scrape_page_view_count increases by exactly 1 per step
\* started.
C20_CountersMonotonic == [][CountersStep]_vars

\* two steps have been started and both counters have moved
C20_Witness ==
    /\ scrape_page_view_count = 2
    /\ pc = "screenshot"
    /\ scrape_action_count = 2

(* --------------------------- the spec file ----------------------------- *)

\* C18: saving a ScrapeSpec with save_scrape_spec and loading it with
\* load_scrape_spec yields a spec whose scrape_events list is identical in
\* length, order and content to the original, for every interleaving of
\* Action, WAIT and DONE entries; WAIT and DONE are written as the literal
\* strings and read back as SpecialInstruction, never as an Action.
C18_RoundTrip ==
    /\ ~IsNone(disk) =>
         LET original == Get(scrape_spec).scrape_events
             written == Get(disk).fields.scrape_events.items
         IN /\ Len(written) = Len(original)
            /\ \A i \in 1..Len(original) :
                  original[i].type = "SpecialInstruction"
                  => written[i] = [json |-> "string",
                                   value |-> original[i].value]
    /\ ~IsNone(loaded) =>
         /\ Get(loaded) # ValidationError
         /\ Get(loaded).scrape_events = Get(scrape_spec).scrape_events
         /\ \A i \in 1..Len(Get(scrape_spec).scrape_events) :
               Get(scrape_spec).scrape_events[i].type = "SpecialInstruction"
               => Get(loaded).scrape_events[i].type = "SpecialInstruction"

\* a spec with an Action between a WAIT and a DONE has been saved and loaded
C18_Witness ==
    /\ ~IsNone(loaded)
    /\ Len(Get(scrape_spec).scrape_events) = 3
    /\ Get(loaded).scrape_events[1] = SpecialEvent("WAIT")
    /\ Get(loaded).scrape_events[2].type = "Action"
    /\ Get(loaded).scrape_events[3] = SpecialEvent("DONE")

(* ------------------------------ markup --------------------------------- *)

RECURSIVE NodesOf(_)
\* a node and every node below it
NodesOf(n) ==
    IF n.node = "text" THEN {n}
    ELSE {n} \cup UNION {NodesOf(n.children[i]) : i \in 1..Len(n.children)}

CompletedSteps == Len(previous_steps)

\* the action-selection calls made in the steps numbered in set ns
ChooseCalls(ns) ==
    {i \in 1..Len(calls) : calls[i].call = "choose_action" /\ calls[i].step \in ns}

ActionEvents(events) == {i \in 1..Len(events) : events[i].type = "Action"}

\* the count of the session is the number of action-selection calls of the
\* processed steps, and a returned step reports the calls it made
AttemptsAccounted ==
    /\ scrape_action_count = Cardinality(ChooseCalls(1..CompletedSteps))
    /\ pc = "returned" =>
         /\ CompletedSteps = scrape_page_view_count - 1
         /\ Get(returned).action_count
               = Cardinality(ChooseCalls({scrape_page_view_count}))

\* the retry loop returns the action of the attempt that succeeded and no
\* action when the attempts are exhausted; processing the step records one
\* Action for the former and none for the latter
ActionRecordedOnSuccess ==
    /\ (pc = "execute_action" /\ pc' = "returned") =>
         IF IsNone(exception')
         THEN Get(returned').action = action /\ ~IsNone(action)
         ELSE IsNone(Get(returned').action)
    /\ pc = "returned" =>
         /\ Cardinality(ActionEvents(scrape_events'))
               = Cardinality(ActionEvents(scrape_events))
                 + (IF IsNone(Get(returned).action) THEN 0 ELSE 1)
         /\ ~IsNone(Get(returned).action) =>
               scrape_events'[Len(scrape_events) + 1]
                  = ActionEvent(Get(Get(returned).action))
    /\ pc # "returned" => UNCHANGED scrape_events

\* C21: after any number of completed steps scrape_action_count equals the
\* number of action-selection model calls (successful or not) made in those
\* steps, the attempt count a step returns equals the attempts made in it,
\* and scrape_events gains exactly one Action for a step that ended with a
\* successful action and none for a step that exhausted its attempts.
C21_AttemptsAndEvents ==
    /\ []AttemptsAccounted
    /\ [][ActionRecordedOnSuccess]_vars

\* two steps are processed: the first exhausted two attempts and recorded
\* nothing, the second succeeded at its first attempt
C21_Witness ==
    /\ pc \in {"loop", "terminated"}
    /\ CompletedSteps = 2
    /\ scrape_action_count = 3
    /\ Cardinality(ChooseCalls({1})) = 2
    /\ Cardinality(ChooseCalls({2})) = 1
    /\ Cardinality(ActionEvents(scrape_events)) = 1


(* ------------------------------------------------------------------------ *)
\* the instruction of step n: recorded in previous_steps once the step is
\* processed, the text received so far while the step runs
InstructionOfStep(n) ==
    IF n <= Len(previous_steps) THEN Some(previous_steps[n])
    ELSE next_instruction

\* C22: in a step whose next instruction contains DONE or WAIT the step
\* returns an attempt count of 0 and no action, and makes no
\* action-selection model call and no browser click, fill, select, check or
\* upload: its only calls are the screenshot, the next-step model call and
\* the read of the page markup.
C22_TokenStepDoesNothing ==
    /\ \A n \in 1..scrape_page_view_count :
          (~IsNone(InstructionOfStep(n)) /\ HasToken(Get(InstructionOfStep(n))))
          => \A i \in CallsOfStep(n) :
                calls[i].call \in {"screenshot", "next_step", "content"}
    /\ (InStep /\ ~IsNone(next_instruction) /\ HasToken(Get(next_instruction)))
       => /\ pc \in {"next_step", "html", "returned"}
          /\ actions_count = 0
          /\ IsNone(action)
          /\ Len(choose_action_chat) = 1
          /\ pc = "returned" =>
                Get(returned) = StepResult(next_instruction, None, 0)

\* the second step of a session returned on a WAIT instruction after the
\* first step had executed an action
C22_Witness ==
    /\ pc = "returned"
    /\ scrape_page_view_count = 2
    /\ scrape_action_count = 1
    /\ Contains(Get(next_instruction), WAIT)
    /\ ~Contains(Get(next_instruction), DONE)
    /\ Get(returned).action_count = 0
    /\ IsNone(Get(returned).action)


(* ------------------------------------------------------------------------ *)
\* the page markup has been read from the browser in the current step
MarkupRead ==
    \E i \in CallsOfStep(scrape_page_view_count) : calls[i].call = "content"

\* the next-step stream of the current step has been consumed to its end
StreamCompleted ==
    /\ pc \in {"html", "choose_action", "execute_action", "returned"}
    /\ Len(next_step_chat) = 3

\* C23: within a step markup extraction is started concurrently with the
\* next-step model call: the page markup is read from the browser before or
\* while the model stream is consumed, so it has been read by the time the
\* stream has completed.
C23_MarkupReadBeforeStreamEnds ==
    StreamCompleted => MarkupRead

\* what the code does instead: while the stream is being consumed the page
\* markup has not been read, and it is read once the stream has completed
C23_MarkupReadAfterStream ==
    /\ pc = "next_step" => ~MarkupRead
    /\ (StreamCompleted /\ pc # "html") => MarkupRead


(* ------------------------------------------------------------------------ *)
\* actions _execute_action cannot carry out: no selector and no role, fill
\* and upload_file without a value, upload_file of a file that is not in
\* the files table
MalformedActions ==
    { Action(ActionElement(None, None, None), "click", None),
      Action(ActionElement(None, None, Some("#user")), "fill", None),
      Action(ActionElement(None, None, Some("#file")), "upload_file", None),
      Action(ActionElement(None, None, Some("#file")), "upload_file",
             Some("passport")),
      Action(ActionElement(None, None, Some("#file")), "upload_file",
             Some(InvalidSelectorText)) }

\* _execute_action raises ActionNotFoundException for a, whatever the
\* browser would answer, without calling the browser
RaisesActionNotFound(a, vs, fls) ==
    \A r \in BrowserResults :
       LET res == _execute_action(a, vs, fls, r) IN
       /\ ~IsNone(res.raised)
       /\ Get(res.raised).kind = "ActionNotFoundException"
       /\ IsNone(res.call)

\* the attempt of an AI step raises ActionNotFoundException: the session
\* ends with it, nothing is appended to the chat and no call is made
ActionNotFoundEndsSession ==
    (/\ pc = "execute_action"
     /\ RaisesActionNotFound(Get(action), variables, files)
     /\ outcome' # "CancelledError")
    => /\ pc' = "terminated"
       /\ outcome' = "ActionNotFoundException"
       /\ UNCHANGED <<calls, choose_action_chat, session>>

\* the replayed event raises ActionNotFoundException: the replay ends with it
ActionNotFoundAbortsReplay ==
    (/\ pc = "replay"
     /\ event_index <= Len(scrape_events)
     /\ scrape_events[event_index].type = "Action"
     /\ RaisesActionNotFound(scrape_events[event_index].action,
                             ReplayVariables, ReplayFiles)
     /\ outcome' # "CancelledError")
    => /\ pc' = "terminated"
       /\ outcome' = "ActionNotFoundException"
       /\ UNCHANGED <<calls, event_index>>

\* C25: _execute_action raises ActionNotFoundException, before any browser
\* interaction, for an action whose element has neither selector nor role,
\* for fill or upload_file with no action_value, and for upload_file whose
\* action_value is not a key of the files table; in an AI step this
\* exception is not retried and ends the session, and in replay it aborts
\* the replay.
C25_ActionNotFound ==
    /\ [](\A a \in MalformedActions :
             RaisesActionNotFound(a, variables, files))
    /\ [][ActionNotFoundEndsSession]_vars
    /\ [][ActionNotFoundAbortsReplay]_vars

\* the part of C25 about _execute_action itself: the exception is raised
\* for each malformed action, and no browser call is made
C25_RaisedBeforeBrowser ==
    \A a \in MalformedActions :
       /\ RaisesActionNotFound(a, variables, files)
       /\ RaisesActionNotFound(a, [username |-> "carol"], [resume |-> "cv.pdf"])


(* ------------------------------------------------------------------------ *)
\* the messages subscriber q was sent when the next-step stream of step k
\* ended; each carries the chat of the step, the instruction last
StreamEndMessages(q, k) ==
    {i \in 1..Len(subscriptions[q]) :
        /\ "next_step_chat" \in DOMAIN subscriptions[q][i]
        /\ subscriptions[q][i].step_id = k}

\* the instruction step k returned, as it was published
PublishedInstruction(q, k) ==
    LET i == CHOOSE j \in StreamEndMessages(q, k) : TRUE
    IN Last(subscriptions[q][i].next_step_chat).content.text

\* the instructions the system prompt of the current step was built from
Seeded == next_step_chat[1].content.previous_steps

\* the step at page view n is seeded with the n-1 instructions of the
\* earlier steps, in step order
SeededWithEarlierSteps ==
    InStep =>
      /\ Len(Seeded) = scrape_page_view_count - 1
      /\ Seeded = previous_steps
      /\ \A k \in 1..(scrape_page_view_count - 1) :
            /\ Cardinality(StreamEndMessages("q1", k)) = 1
            /\ Seeded[k] = PublishedInstruction("q1", k)

\* previous_steps gains the instruction of each processed step and changes
\* in no other way
HistoryGrowsByOne ==
    /\ pc = "returned" =>
         previous_steps'
            = Append(previous_steps, Get(Get(returned).next_instruction))
    /\ pc # "returned" => UNCHANGED previous_steps

\* C26: the step run at page view n is seeded with exactly the n-1 next
\* instructions returned by the earlier steps of the session, in step order,
\* WAIT instructions and instructions of steps that exhausted their
\* attempts included; previous_steps only ever grows, by one entry per
\* completed step.
C26_SeededWithHistory ==
    /\ []SeededWithEarlierSteps
    /\ [][HistoryGrowsByOne]_vars

\* a third step is seeded with a WAIT instruction and the instruction of a
\* step that exhausted two attempts
C26_Witness ==
    /\ pc = "screenshot"
    /\ scrape_page_view_count = 3
    /\ Len(Seeded) = 2
    /\ Contains(Seeded[1], WAIT)
    /\ ~HasToken(Seeded[2])
    /\ Seeded[2] # <<>>
    /\ scrape_events = <<WaitEvent>>
    /\ scrape_action_count = 2


(* ------------------------------------------------------------------------ *)
\* the action the model chose at attempt j of step k, as it was published
PublishedAction(q, k, j) ==
    LET i == CHOOSE n \in 1..Len(subscriptions[q]) :
                 /\ "step_action_count" \in DOMAIN subscriptions[q][n]
                 /\ subscriptions[q][n].step_id = k
                 /\ subscriptions[q][n].step_action_count = j
    IN subscriptions[q][i].action

CorrectiveMessages == {TimeoutMessage, InvalidSelectorMessage, StrictModeMessage}

\* what the k-th action-selection call of a step is sent, k - 1 attempts
\* having failed: the system prompt, the instruction and the markup, then
\* for each failed attempt the chosen action and a corrective message
TranscriptOfRetries ==
    pc = "choose_action" =>
      /\ Len(choose_action_chat) = 2 + 2 * actions_count
      /\ choose_action_chat[1].role = "system"
      /\ choose_action_chat[1].content.prompt = "choose_action"
      /\ choose_action_chat[2].role = "user"
      /\ choose_action_chat[2].content.instruction = Get(next_instruction)
      /\ choose_action_chat[2].content.html = scrape_page_view_count
      /\ \A j \in 1..actions_count :
            /\ choose_action_chat[2 * j + 1].role = "assistant"
            /\ choose_action_chat[2 * j + 1].content.action
                  = PublishedAction("q1", scrape_page_view_count, j)
            /\ choose_action_chat[2 * j + 2].role = "user"
            /\ choose_action_chat[2 * j + 2].content.text \in CorrectiveMessages

\* a step starts from the system prompt alone
FreshTranscript ==
    pc \in {"screenshot", "next_step", "html"} =>
      /\ Len(choose_action_chat) = 1
      /\ choose_action_chat[1].role = "system"

\* within a step the transcript is only appended to: the answer of the
\* model when it answers, the corrective message of the failure when an
\* attempt fails recoverably
TranscriptAppendOnly ==
    /\ (InStep /\ pc # "returned") =>
         /\ Len(choose_action_chat') >= Len(choose_action_chat)
         /\ SubSeq(choose_action_chat', 1, Len(choose_action_chat))
               = choose_action_chat
    /\ (pc = "choose_action" /\ pc' = "execute_action") =>
         choose_action_chat'
            = Append(choose_action_chat,
                     ModelChat("assistant", [action |-> Get(action')]))
    /\ (pc = "execute_action" /\ pc' \in {"choose_action", "returned"}
        /\ ~IsNone(exception')) =>
         choose_action_chat'
            = Append(choose_action_chat,
                     ModelChat("user",
                               [text |-> CorrectiveFor(Get(exception'))]))

\* C27: within one step the action-selection transcript is append-only
\* across retries: the k-th action-selection call is sent the system prompt,
\* the instruction/markup message and, for each of the k-1 earlier failed
\* attempts in order, the model's chosen action followed by its corrective
\* message; a new step starts from a fresh transcript containing none of
\* the previous step's retry messages.
C27_TranscriptAcrossRetries ==
    /\ [](TranscriptOfRetries /\ FreshTranscript)
    /\ [][TranscriptAppendOnly]_vars

\* the second step is about to make its second action-selection call, the
\* first step having needed a retry of its own
C27_Witness ==
    /\ pc = "choose_action"
    /\ scrape_page_view_count = 2
    /\ scrape_action_count = 2
    /\ actions_count = 1
    /\ Len(choose_action_chat) = 4


(* ------------------------------------------------------------------------ *)
\* C29: when both max_total_actions >= 1 and max_action_attempts_per_step
\* are set, scrape_action_count never exceeds max_total_actions in any
\* reachable state of the session, whatever the model and the browser do;
\* the attempts of the running step, not yet added, stay within the budget
\* as well.
C29_WithinTotalActions ==
    (/\ ~IsNone(max_total_actions)
     /\ Get(max_total_actions) >= 1
     /\ ~IsNone(max_action_attempts_per_step))
    => /\ scrape_action_count <= Get(max_total_actions)
       /\ InStep =>
            scrape_action_count + actions_count <= Get(max_total_actions)

\* a budget of two actions: the first step succeeded at once, the second
\* step was left a single attempt by the remaining budget, although the
\* per-step cap allows two, and that attempt failed
C29_Witness ==
    /\ max_total_actions = Some(2)
    /\ max_action_attempts_per_step = Some(2)
    /\ scrape_page_view_count = 2
    /\ scrape_action_count = 2
    /\ Cardinality(ChooseCalls({2})) = 1
    /\ Cardinality(ActionEvents(scrape_events)) = 1
    /\ pc = "terminated"
    /\ outcome = "MaxTotalActionsReachedException"

(* ------------------------------------------------------------------------ *)
\* C30: when max_page_views >= 1 is set, scrape_page_view_count never
\* exceeds max_page_views in any reachable state: no step is started once
\* the page-view budget has been reached.
C30_WithinPageViews ==
    /\ [](~IsNone(max_page_views) /\ Get(max_page_views) >= 1
          => scrape_page_view_count <= Get(max_page_views))
    /\ [][(/\ ~IsNone(max_page_views)
           /\ Get(max_page_views) >= 1
           /\ scrape_page_view_count >= Get(max_page_views))
          => UNCHANGED scrape_page_view_count]_vars

\* two page views were allowed and taken, the second step returned without
\* DONE, and the session stopped there
C30_Witness ==
    /\ max_page_views = Some(2)
    /\ scrape_page_view_count = 2
    /\ Len(previous_steps) = 2
    /\ pc = "terminated"
    /\ outcome = "MaxPageViewsReachedException"


(* ------------------------------------------------------------------------ *)
\* C24: the text accumulated by openai_stream_response_generator equals the
\* concatenation, in stream order, of the content of every data: payload
\* sent before the terminating data: [DONE], however the transport splits
\* the stream into chunks (a chunk boundary inside a data: line included),
\* and nothing after [DONE] is appended.
C24_TextIsConcatenation ==
    generator = "finished" =>
      \A before \in SeqsUpTo(Contents, MaxPayloads),
         after \in SeqsUpTo(Trailers, 1) :
         response_body = ResponseBody(before, after) => content = Flatten(before)

\* what the generator does deliver: the concatenation of the payloads before
\* the end marker when every chunk ends at the end of a line, nothing
\* follows the end marker and no content holds the text data:
C24_WholeLinesOnly ==
    (generator = "finished" /\ ~cut_inside_line) =>
      \A before \in SeqsUpTo(Contents \ {<<"meta", "da", "ta:", "x">>},
                             MaxPayloads) :
         response_body = ResponseBody(before, <<>>)
         => /\ content = Flatten(before)
            /\ Len(yielded) = Len(before)
            /\ before # <<>> => Last(yielded) = [content |-> content]

\* two payloads arrived in two chunks cut at a line end and were joined
C24_JoinedAcrossChunks ==
    /\ generator = "finished"
    /\ ~cut_inside_line
    /\ response_body = ResponseBody(<<<<"Hel">>, <<"lo">>>>, <<>>)
    /\ content = <<"Hel", "lo">>
    /\ Len(yielded) = 2


(* ------------------------------------------------------------------------ *)
IsPrefix(p, q) == Len(p) <= Len(q) /\ SubSeq(q, 1, Len(p)) = p

\* the second session asks the language model and the browser only what the
\* first session asked, so that it is given the same answers, and what it
\* has done so far is what the first session did
FollowsFirst ==
    phase = 2 =>
      /\ pc = "next_step" => StreamKey \in DOMAIN stream_script
      /\ pc = "choose_action" => ChooseKey \in DOMAIN answer_script
      /\ pc = "execute_action" => ExecuteKey \in DOMAIN result_script
      /\ IsPrefix(calls, Get(first).calls)
      /\ IsPrefix(scrape_events, Get(first).scrape_events)
      /\ IsPrefix(previous_steps, Get(first).previous_steps)
      /\ scrape_page_view_count <= Get(first).scrape_page_view_count
      /\ scrape_action_count <= Get(first).scrape_action_count

\* the second session ends as the first one did
SameAsFirst ==
    (phase = 2 /\ pc = "terminated") => Observables = Get(first)

AtLeastOne(n) == IF n >= 1 THEN n ELSE 1

\* the session has ended, by returning or by raising
Terminated == pc = "terminated"

\* no more steps than max(1, max_page_views) are started, and no step makes
\* more attempts than max(1, max_action_attempts) of the cap it was given
WithinCaps ==
    /\ scrape_page_view_count <= AtLeastOne(Get(max_page_views))
    /\ Cardinality({n \in 1..Len(calls) : calls[n].call = "screenshot"})
           <= AtLeastOne(Get(max_page_views))
    /\ InStep =>
         /\ ~IsNone(step_max_action_attempts)
         /\ actions_count <= AtLeastOne(Get(step_max_action_attempts))
         /\ Cardinality(ChooseCalls({scrape_page_view_count}))
                <= AtLeastOne(Get(step_max_action_attempts))

\* C31: with max_page_views and max_action_attempts_per_step both set and
\* every call of the model and of the browser returning, the session always
\* terminates, by returning or by raising, after at most
\* max(1, max_page_views) steps, whatever the model answers, and each step
\* makes at most max(1, max_action_attempts) action attempts.
C31_Terminates == []WithinCaps /\ <>Terminated

\* two page views were allowed and both were used up: each step made the
\* one attempt its cap of 0 still leaves it, and the session ended on the
\* page-view budget
C31_Witness ==
    /\ max_page_views = Some(2)
    /\ max_action_attempts_per_step = Some(0)
    /\ scrape_page_view_count = 2
    /\ Cardinality(ChooseCalls({1})) = 1
    /\ Cardinality(ChooseCalls({2})) = 1
    /\ Terminated
    /\ outcome = "MaxPageViewsReachedException"

(* ------------------------------------------------------------------------ *)
\* the step has returned an instruction that holds neither token
PlainStepReturned ==
    /\ pc = "returned"
    /\ ~IsNone(Get(returned).next_instruction)
    /\ ~HasToken(Get(Get(returned).next_instruction))

\* a returned step whose instruction holds neither token has made an attempt
AtLeastOneAttempt ==
    PlainStepReturned
    => /\ Get(returned).action_count >= 1
       /\ ChooseCalls({scrape_page_view_count}) # {}

\* the markup read, a step whose instruction holds neither token goes on to
\* its first attempt, whatever its limit
FirstAttemptUnconditional ==
    (pc = "html" /\ ~HasToken(Get(next_instruction)) /\ pc' # pc)
    => pc' = "choose_action" /\ actions_count' = 0

\* the attempt being executed raises nothing: the exception of the step
\* stays unset
AttemptSucceeds == pc = "execute_action" /\ IsNone(exception')

\* a successful attempt returns its action and the count, whatever the limit
SuccessIgnoresLimit ==
    AttemptSucceeds
    => /\ pc' = "returned"
       /\ Get(returned').action = action
       /\ ~IsNone(action)
       /\ Get(returned').action_count = actions_count

\* C32: a step whose instruction is neither DONE nor WAIT always makes at
\* least one action attempt, even when the max_action_attempts it was given
\* is 0 or negative: the limit is tested only after a failed attempt and is
\* never consulted after a successful one.
C32_FirstAttemptAlways ==
    /\ []AtLeastOneAttempt
    /\ [][FirstAttemptUnconditional]_vars
    /\ [][SuccessIgnoresLimit]_vars

\* a step given a negative limit made its one attempt, which succeeded, and
\* returned the action
C32_Witness ==
    /\ step_max_action_attempts = Some(-1)
    /\ PlainStepReturned
    /\ Get(returned).action = action
    /\ ~IsNone(action)
    /\ Get(returned).action_count = 1

\* a step given a limit of 0 made one attempt, which failed, and gave up
C32_ZeroLimitFailure ==
    /\ step_max_action_attempts = Some(0)
    /\ PlainStepReturned
    /\ IsNone(Get(returned).action)
    /\ Get(returned).action_count = 1

(* ------------------------------------------------------------------------ *)
\* both budgets are set and the counters have reached them
BothBudgetsReached ==
    /\ ~IsNone(max_total_actions)
    /\ ~IsNone(max_page_views)
    /\ scrape_action_count >= Get(max_total_actions)
    /\ scrape_page_view_count >= Get(max_page_views)

\* the step being processed is not DONE and leaves both budgets reached:
\* the session raises MaxTotalActionsReachedException
TotalActionsRaisedFirst ==
    (NotDoneStepReturned /\ pc' # pc /\ BothBudgetsReached')
    => /\ pc' = "terminated"
       /\ outcome' = "MaxTotalActionsReachedException"
       /\ Get(exception').kind = "MaxTotalActionsReachedException"

\* C33: when a step that is not DONE leaves both budgets reached
\* (scrape_action_count >= max_total_actions and scrape_page_view_count >=
\* max_page_views), the session fails with MaxTotalActionsReachedException,
\* never with MaxPageViewsReachedException.
C33_TotalActionsBeforePageViews ==
    /\ [][TotalActionsRaisedFirst]_vars
    /\ [](outcome = "MaxPageViewsReachedException" => ~BothBudgetsReached)

\* the second of two page views used the last of two actions: both
\* budgets are reached at once and the total-action failure is raised
C33_Witness ==
    /\ max_page_views = Some(2)
    /\ max_total_actions = Some(2)
    /\ scrape_page_view_count = 2
    /\ scrape_action_count = 2
    /\ CompletedSteps = 2
    /\ ~Contains(previous_steps[2], DONE)
    /\ pc = "terminated"
    /\ outcome = "MaxTotalActionsReachedException"

(* ------------------------------------------------------------------------ *)
\* a budget is set and the counters have reached it
SomeBudgetReached ==
    \/ ~IsNone(max_page_views)
       /\ scrape_page_view_count >= Get(max_page_views)
    \/ ~IsNone(max_total_actions)
       /\ scrape_action_count >= Get(max_total_actions)

\* the step being processed returned DONE and leaves a budget reached: the
\* session ends successfully and no exception is raised
DoneBeforeBudgets ==
    (DoneStepReturned /\ pc' # pc /\ SomeBudgetReached')
    => /\ pc' = "terminated"
       /\ outcome' = "returned"
       /\ exception' = exception

\* C34: DONE takes precedence over budget exhaustion: when the step at
\* which scrape_page_view_count reaches max_page_views, or at which the
\* action budget is already reached, returns DONE, the session ends
\* successfully and raises neither budget exception.
C34_DoneBeatsBudgets ==
    /\ [][DoneBeforeBudgets]_vars
    /\ [](outcome \in BudgetFailures
             => ~Contains(Last(previous_steps), DONE))

\* one page view and no action allowed: the first step returned DONE with
\* both budgets reached and the session ended successfully
C34_Witness ==
    /\ max_page_views = Some(1)
    /\ max_total_actions = Some(0)
    /\ scrape_page_view_count = 1
    /\ scrape_action_count = 0
    /\ CompletedSteps = 1
    /\ Contains(Last(previous_steps), DONE)
    /\ pc = "terminated"
    /\ outcome = "returned"
    /\ IsNone(exception)

(* ------------------------------------------------------------------------ *)
\* the positions of DONE in a sequence of events
DonePositions(events) == {i \in 1..Len(events) : events[i] = DoneEvent}

\* C35: in every reachable state of an AI session scrape_events has at most
\* one entry per completed step, so that len(scrape_events) <=
\* scrape_page_view_count, and DONE occurs in scrape_events at most once
\* and only as its last element.
C35_EventsPerStep ==
    /\ Len(scrape_events) <= CompletedSteps
    /\ CompletedSteps <= scrape_page_view_count
    /\ DonePositions(scrape_events) \subseteq {Len(scrape_events)}

\* three steps, three events: an action, a WAIT and the closing DONE
C35_Witness ==
    /\ scrape_page_view_count = 3
    /\ Len(scrape_events) = 3
    /\ ActionEvents(scrape_events) = {1}
    /\ scrape_events[2] = WaitEvent
    /\ DonePositions(scrape_events) = {3}

(* ------------------------------------------------------------------------ *)
\* what the session records for the instruction of the step it processes:
\* DONE wherever DONE occurs in it, WAIT where WAIT occurs and DONE does not
TokenRecorded ==
    (pc = "returned" /\ pc' # pc)
    => LET instruction == Get(Get(returned).next_instruction) IN
       IF Contains(instruction, DONE)
       THEN /\ scrape_events' = Append(scrape_events, DoneEvent)
            /\ pc' = "terminated"
            /\ outcome' = "returned"
       ELSE IF Contains(instruction, WAIT)
       THEN /\ scrape_events' = Append(scrape_events, WaitEvent)
            /\ outcome' # "returned"
       ELSE /\ DonePositions(scrape_events') = {}
            /\ Len(scrape_events') - Cardinality(ActionEvents(scrape_events'))
                   = Len(scrape_events) - Cardinality(ActionEvents(scrape_events))
            /\ outcome' # "returned"

\* C36: DONE and WAIT are matched as substrings of the instruction and DONE
\* has priority: an instruction containing both tokens is recorded as DONE
\* and ends the session; an instruction containing only WAIT is recorded as
\* WAIT.
C36_SubstringsDoneFirst == [][TokenRecorded]_vars

\* the instruction of the second step holds WAIT followed by DONE, after a
\* first step whose instruction held WAIT after other text: WAIT was
\* recorded for the first, DONE for the second, which ended the session
C36_Witness ==
    /\ CompletedSteps = 2
    /\ previous_steps[1] = <<"c", "l", "i", "c", "k">> \o WAIT
    /\ previous_steps[2] = WAIT \o DONE
    /\ scrape_events = <<WaitEvent, DoneEvent>>
    /\ pc = "terminated"
    /\ outcome = "returned"

(* ------------------------------------------------------------------------ *)
\* the session-level messages in a queue: those carrying the counters
CounterMessages(q) ==
    SelectSeq(subscriptions[q],
              LAMBDA msg : "scrape_page_view_count" \in DOMAIN msg)

\* the attempt messages of step k in a queue
AttemptMessages(q, k) ==
    SelectSeq(subscriptions[q],
              LAMBDA msg : /\ "step_action_count" \in DOMAIN msg
                           /\ msg.step_id = k)

\* the attempts of the step not yet added to scrape_action_count
PendingAttempts ==
    IF pc = "returned" \/ ((InStep \/ pc = "terminated") /\ IsNone(returned))
    THEN actions_count ELSE 0

\* every subscriber has been given the same messages, the page views
\* published count 1, 2, 3, ... and the attempts of each step 1, 2, ... up
\* to the attempts the step took
SameSequenceEverywhere ==
    /\ \A q1, q2 \in DOMAIN subscriptions :
          subscriptions[q1] = subscriptions[q2]
    /\ \A q \in DOMAIN subscriptions :
          /\ Len(CounterMessages(q)) = scrape_page_view_count
          /\ \A i \in 1..scrape_page_view_count :
                CounterMessages(q)[i].scrape_page_view_count = i
          /\ \A k \in 1..scrape_page_view_count :
                /\ \A j \in 1..Len(AttemptMessages(q, k)) :
                      AttemptMessages(q, k)[j].step_action_count = j
                /\ k = scrape_page_view_count /\ InStep =>
                      Len(AttemptMessages(q, k)) = actions_count
          /\ Cardinality({i \in 1..Len(subscriptions[q]) :
                             "step_action_count" \in DOMAIN subscriptions[q][i]})
                = scrape_action_count + PendingAttempts

\* queues only grow, at their end: messages arrive in publish order; a page
\* view counted or an attempt made is published to every queue at once
DeliveredInOrder ==
    \A q \in DOMAIN subscriptions :
       /\ IsPrefix(subscriptions[q], subscriptions'[q])
       /\ Len(subscriptions'[q]) <= Len(subscriptions[q]) + 1
       /\ scrape_page_view_count' # scrape_page_view_count =>
            Last(subscriptions'[q]) =
                [scrape_page_view_count |-> scrape_page_view_count',
                 scrape_action_count |-> scrape_action_count]
       /\ (InStep /\ actions_count' # actions_count) =>
            /\ Len(subscriptions'[q]) = Len(subscriptions[q]) + 1
            /\ Last(subscriptions'[q]).step_action_count = actions_count'
            /\ Last(subscriptions'[q]).step_id = scrape_page_view_count

\* C37: every message published during a run, by the session and by its
\* steps alike, is put on every subscribed queue in publish order, so that
\* all subscribers see the same sequence of messages; in it the published
\* scrape_page_view_count values are 1, 2, 3, ... and the step_action_count
\* values of each step are 1, 2, ..., up to the attempts the step took.
C37_SameMessagesInOrder ==
    []SameSequenceEverywhere /\ [][DeliveredInOrder]_vars

\* two subscribers hold the same messages of two page views, the
\* first with two attempts, the second with one
C37_Witness ==
    /\ scrape_page_view_count = 2
    /\ pc = "returned"
    /\ \A q \in Queues :
          /\ Len(CounterMessages(q)) = 2
          /\ Len(AttemptMessages(q, 1)) = 2
          /\ Len(AttemptMessages(q, 2)) = 1
          /\ AttemptMessages(q, 1)[2].step_action_count = 2
    /\ subscriptions["q1"] = subscriptions["q2"]

(* ------------------------------------------------------------------------ *)
\* the tasks that have finished
FinishedTasks == {h \in DOMAIN handles : handles[h].at = "finished"}

\* the table still holds task h under its id
StillInTable(h) ==
    /\ handles[h].task_id \in DOMAIN tasks
    /\ tasks[handles[h].task_id] = h

\* C38: in TaskManager, for every interleaving of add_task, cancel_task,
\* cancel_all_tasks and task completion, a task that has finished (normally,
\* by exception or by cancellation, also when it was cancelled before it
\* first ran) is no longer in tasks under its id, and the removal never
\* raises: no task ends with a KeyError.
C38_FinishedTaskRemoved ==
    \A h \in FinishedTasks :
       /\ ~StillInTable(h)
       /\ handles[h].result # "KeyError"

\* what does hold: a task that ran to its del while the table still held
\* its id has removed that id, and a task finishes with the table holding
\* it only when it was cancelled before its first step
C38_RemovedWhenBodyRan ==
    \A h \in FinishedTasks :
       /\ handles[h].result = "returned" => ~StillInTable(h)
       /\ StillInTable(h) => handles[h].result = "cancelled"

\* a task was cancelled while running and removed its id
C38_CancelledWhileRunning ==
    \E h \in FinishedTasks :
       /\ handles[h].result = "returned"
       /\ ~StillInTable(h)
       /\ handles[h].task_id \in DOMAIN status
       /\ status[handles[h].task_id] = "running"

\* the removal raised: the table had been emptied by cancel_all_tasks, or
\* an earlier task added under the same id had removed the entry
C38_RemovalRaised ==
    \E h \in FinishedTasks : handles[h].result = "KeyError"

(* ------------------------------------------------------------------------ *)
\* the statuses a run ends with
TerminalStatuses == {"completed", "failed", "stopped"}

\* a status that is terminal stays as it is
TerminalStatusKept ==
    \A scrape_id \in DOMAIN status :
       status[scrape_id] \in TerminalStatuses
       => /\ scrape_id \in DOMAIN status'
          /\ status'[scrape_id] = status[scrape_id]

\* C39: a run's status in the web service is terminal once set: after
\* RunMessage.status has become completed, failed or stopped it never
\* changes again, for every interleaving of the run task finishing
\* (_run_scraper calling complete() or fail()) and a stop request
\* (processing_stop calling cancel_task, then stop()).
C39_StatusTerminal == [][TerminalStatusKept]_vars

\* what does hold: the run task itself sets a terminal status only on a
\* run that is running or that a stop request has marked stopped, and only
\* a stop request changes the status of a run whose task has finished
C39_TaskSetsStatusOnce ==
    [][\A scrape_id \in DOMAIN status :
          /\ status[scrape_id] \in {"completed", "failed"}
             => status'[scrape_id] \in {status[scrape_id], "stopped"}
          /\ (status[scrape_id] = "stopped"
              /\ status'[scrape_id] # "stopped")
             => /\ status'[scrape_id] = "failed"
                /\ \E h \in DOMAIN handles :
                      /\ handles[h].task_id = scrape_id
                      /\ handles[h].at = "running"
                      /\ handles[h].must_cancel]_vars

\* a run that had completed is shown as stopped
C39_StoppedAfterCompleted ==
    \E h \in FinishedTasks :
       /\ handles[h].result = "returned"
       /\ handles[h].task_id \notin DOMAIN tasks
       /\ status[handles[h].task_id] = "stopped"

====
